---------------------------- MODULE Spec2Model ----------------------------
(***************************************************************************)
(* A model of cm, a front end for CMake projects: the fuzzy value parser   *)
(* (applause/src/lib.rs, src/cli.rs), the layered argument builder         *)
(* (src/args.rs), the boolean options of the command line (src/cli.rs)     *)
(* and the planner of the lit subcommand (src/cm.rs).                      *)
(*                                                                         *)
(* Text is modelled as a sequence of symbols.  Where the code looks at     *)
(* single characters (prefixes, case, the first character of a line) a     *)
(* symbol is one character; where it only moves a piece of text around, a  *)
(* symbol is that piece ("LLVM :: ", "a.c").                               *)
(***************************************************************************)
EXTENDS Integers, Sequences, FiniteSets, TLC

\* Bounds of the model.
MaxLines == 3      \* lines of a config file
MaxOcc == 3        \* occurrences of one boolean option in an argument vector
MaxArgs == 2       \* tokens after the subcommand on the command line

VARIABLES
    pc,            \* position of the run: "start", then the steps of each component
    parser,        \* FuzzyParser: [crate, known_values, inferable_prefix]
    value,         \* the token handed to FuzzyParser::parse_ref
    parsed,        \* the Result of parse_ref
    env,           \* [CM_CONFIG_PATH, CM_TESTING, config_dir]
    file,          \* the config file: [opens, lines, bad] (bad: index of an unreadable line, 0 = none)
    sub,           \* the subcommand token
    inner,         \* Config.inner: [some, lines, section]
    out,           \* the argument accumulator (args of build_with_pre_cli)
    err,           \* whether the operation returned Err
    cli,           \* the command line as PreCli sees it
    cooked,        \* the cooked argument vector and what the grammar resolves from it
    boolarg,       \* a boolean option of cli.rs and the tokens that spell it
    lit,           \* the Lit options
    world,         \* filesystem seen by plan_lit: [source, binary_exists, snapshot, tests]
    planned,       \* the outcome of plan_lit
    invocation,    \* what cm() is given: [cli, fs, probes, lit_world]
    resolved,      \* quirks and paths of cm(), and the filesystem queries made for them
    plan_cmds,     \* the Result of plan(): [ok, cmds]
    proc,          \* the loop of cm(): [k, started, statuses, printed, exit]
    shell,         \* a shell that evaluates the output of activate and deactivate
    translation    \* one call of ResultDBTest::test_path: [test_id, paths, path]

vars == <<pc, parser, value, parsed, env, file, sub, inner, out, err, cli,
          cooked, boolarg, lit, world, planned, invocation, resolved, plan_cmds, proc,
          shell, translation>>

fuzzyVars == <<parser, value, parsed>>
configVars == <<env, file, sub, inner, out, err>>
argsVars == <<cli, cooked>>
litVars == <<lit, world, planned>>
cmVars == <<invocation, resolved, plan_cmds, proc>>

(***************************************************************************)
(* Text helpers                                                            *)
(***************************************************************************)
\* str::starts_with
StartsWith(s, p) ==
    /\ Len(p) <= Len(s)
    /\ SubSeq(s, 1, Len(p)) = p

\* u8::to_ascii_lowercase, on the letters the model uses
Lower(c) ==
    CASE c = "A" -> "a"
      [] c = "C" -> "c"
      [] c = "D" -> "d"
      [] c = "L" -> "l"
      [] c = "M" -> "m"
      [] c = "V" -> "v"
      [] OTHER -> c

\* str::eq_ignore_ascii_case
EqIgnoreAsciiCase(s, t) ==
    /\ Len(s) = Len(t)
    /\ \A i \in 1..Len(s) : Lower(s[i]) = Lower(t[i])

\* the subsequences of a sequence, order kept
RECURSIVE SubSeqs(_)
SubSeqs(seq) ==
    IF seq = <<>> THEN {<<>>}
    ELSE LET rest == SubSeqs(Tail(seq))
         IN  rest \cup {<<Head(seq)>> \o r : r \in rest}

\* the sequences over S of length at most n
SeqsUpTo(S, n) == UNION {[1..k -> S] : k \in 0..n}

(***************************************************************************)
(* FuzzyParser                                                             *)
(***************************************************************************)
s_all == <<"a", "l", "l">>
s_llvm == <<"l", "l", "v", "m">>
s_clang == <<"c", "l", "a", "n", "g">>
s_lld == <<"l", "l", "d">>
s_LLD == <<"L", "L", "D">>
s_check == <<"c", "h", "e", "c", "k", "-">>

\* the known groups of Lit::group, and a value that differs from one of them by case only
KnownUniverse == <<s_all, s_llvm, s_clang, s_lld, s_LLD>>

Tokens ==
    { <<>>, <<"a">>, <<"a", "l">>, s_all, <<"l">>, <<"l", "l">>, <<"l", "l", "v">>,
      s_llvm, s_lld, s_LLD, <<"L", "l", "d">>, <<"L">>, <<"A", "L", "L">>,
      <<"L", "L", "V", "M">>, <<"c">>, <<"x">>, s_check, s_check \o s_all,
      s_check \o <<"x">> }

NoPrefix == [some |-> FALSE, str |-> <<>>]
SomePrefix(p) == [some |-> TRUE, str |-> p]

Ok(v) == [ok |-> TRUE, val |-> v, invalid |-> <<>>, valid |-> <<>>]

\* FuzzyParser::error: InvalidValue with the offending value and the valid values,
\* the open namespace "<prefix>*" first, then every known value
FuzzyError(p, val) ==
    [ok |-> FALSE, val |-> <<>>, invalid |-> val,
     valid |-> (IF p.inferable_prefix.some
                THEN <<p.inferable_prefix.str \o <<"*">> >> ELSE <<>>)
               \o p.known_values]

\* applause: parse_ref_without_inferable_prefix
parse_ref_without_inferable_prefix(p, v) ==
    LET matching == SelectSeq(p.known_values, LAMBDA s : EqIgnoreAsciiCase(s, v))
    IN  IF Len(matching) = 1 THEN Ok(matching[1]) ELSE Ok(v)

\* cli.rs: parse_ref_without_inferrable_prefix
parse_ref_without_inferrable_prefix(p, v) == Ok(v)

MutPrefixIgnoreCase(p, v, prefix) ==
    IF StartsWith(v, prefix) THEN Ok(v)
    ELSE LET matching ==
                 SelectSeq(p.known_values,
                           LAMBDA s : Len(v) <= Len(s)
                                   /\ EqIgnoreAsciiCase(SubSeq(s, 1, Len(v)), v))
         IN  IF Len(matching) = 1 THEN Ok(prefix \o matching[1])
             ELSE FuzzyError(p, v)

\* applause: parse_ref_with_inferable_prefix
parse_ref_with_inferable_prefix(p, v, prefix) ==
    IF StartsWith(v, prefix) THEN Ok(v)
    ELSE LET matching == SelectSeq(p.known_values, LAMBDA s : StartsWith(s, v))
         IN  IF Len(matching) = 1 THEN Ok(prefix \o matching[1])
             ELSE FuzzyError(p, v)

\* cli.rs: parse_ref_with_inferrable_prefix
parse_ref_with_inferrable_prefix(p, v, prefix) ==
    IF StartsWith(v, prefix) THEN Ok(v)
    ELSE LET matching_groups == SelectSeq(p.known_values, LAMBDA s : StartsWith(s, v))
         IN  IF Len(matching_groups) = 1 THEN Ok(prefix \o matching_groups[1])
             ELSE FuzzyError(p, v)

\* TypedValueParser::parse_ref of the crate's FuzzyParser
parse_ref(p, v) ==
    IF p.crate = "applause"
    THEN IF p.inferable_prefix.some
         THEN parse_ref_with_inferable_prefix(p, v, p.inferable_prefix.str)
         ELSE parse_ref_without_inferable_prefix(p, v)
    ELSE IF p.inferable_prefix.some
         THEN parse_ref_with_inferrable_prefix(p, v, p.inferable_prefix.str)
         ELSE parse_ref_without_inferrable_prefix(p, v)


(***************************************************************************)
(* Config (src/args.rs)                                                    *)
(***************************************************************************)
s_build == <<"b", "u", "i", "l", "d">>
s_lit == <<"l", "i", "t">>
s_cm == <<"c", "m">>

IsSpace(c) == c \in {" ", "\t"}

\* str::trim_start
RECURSIVE TrimStart(_)
TrimStart(s) ==
    IF s # <<>> /\ IsSpace(Head(s)) THEN TrimStart(Tail(s)) ELSE s

\* str::trim
RECURSIVE TrimEnd(_)
TrimEnd(s) ==
    IF s # <<>> /\ IsSpace(s[Len(s)]) THEN TrimEnd(SubSeq(s, 1, Len(s) - 1)) ELSE s

Trim(s) == TrimEnd(TrimStart(s))

\* Config { inner: None } and Config { inner: Some(ConfigInner { lines, section }) };
\* bad is the index, among the lines still to read, of the line whose read fails (0: none)
NoInner == [some |-> FALSE, lines |-> <<>>, bad |-> 0, section |-> <<>>]

\* Config::from_path: Err when File::open fails, else the lines and section ""
from_path(f) ==
    IF f.opens
    THEN [ok |-> TRUE,
          config |-> [some |-> TRUE, lines |-> f.lines, bad |-> f.bad, section |-> <<>>]]
    ELSE [ok |-> FALSE, config |-> NoInner]


MutFromEnvDefaultFatal(e, f) ==
    IF e.CM_CONFIG_PATH = "unset"
    THEN IF e.CM_TESTING THEN [ok |-> TRUE, config |-> NoInner]
         ELSE IF ~e.config_dir THEN [ok |-> TRUE, config |-> NoInner]
         ELSE from_path(f)
    ELSE IF e.CM_CONFIG_PATH = "empty" THEN [ok |-> TRUE, config |-> NoInner]
    ELSE from_path(f)

\* Config::from_env; f is the file at the path it opens (the override path when
\* CM_CONFIG_PATH is set, <config_dir>/cm.rc otherwise)
from_env(e, f) ==
    IF e.CM_CONFIG_PATH = "unset"
    THEN IF e.CM_TESTING THEN [ok |-> TRUE, config |-> NoInner]
         ELSE IF ~e.config_dir THEN [ok |-> TRUE, config |-> NoInner]
         ELSE IF from_path(f).ok THEN from_path(f)
         ELSE [ok |-> TRUE, config |-> NoInner]
    ELSE IF e.CM_CONFIG_PATH = "empty" THEN [ok |-> TRUE, config |-> NoInner]
    ELSE from_path(f)

MutInSectionReversed(section, subcommand_prefix) ==
    section = <<>> \/ StartsWith(subcommand_prefix, section)


\* ConfigInner::in_section
in_section(section, subcommand_prefix) ==
    section = <<>> \/ StartsWith(section, subcommand_prefix)

\* a scan that takes a line for an Argument when its first character after
\* leading whitespace is '-'
MutSlurpLineTrimmed(st, line, subcommand_prefix) ==
    IF TrimStart(line) # <<>> /\ Head(TrimStart(line)) = "-"
    THEN IF in_section(st.section, subcommand_prefix)
         THEN [st EXCEPT !.out = Append(@, line)]
         ELSE st
    ELSE IF (TrimStart(line) # <<>> /\ Head(TrimStart(line)) = "#") \/ Trim(line) = <<>>
    THEN st
    ELSE [st EXCEPT !.section = line]

\* a scan in which a blank line ends the current section
MutSlurpLineBlankResets(st, line, subcommand_prefix) ==
    IF line # <<>> /\ Head(line) = "-"
    THEN IF in_section(st.section, subcommand_prefix)
         THEN [st EXCEPT !.out = Append(@, line)]
         ELSE st
    ELSE IF TrimStart(line) # <<>> /\ Head(TrimStart(line)) = "#"
    THEN st
    ELSE IF Trim(line) = <<>>
    THEN [st EXCEPT !.section = <<>>]
    ELSE [st EXCEPT !.section = line]

\* one iteration of the loop of Config::slurp_into, on a line that was read:
\* st = [section, out]
slurp_line(st, line, subcommand_prefix) ==
    IF line # <<>> /\ Head(line) = "-"
    THEN IF in_section(st.section, subcommand_prefix)
         THEN [st EXCEPT !.out = Append(@, line)]
         ELSE st
    ELSE IF (TrimStart(line) # <<>> /\ Head(TrimStart(line)) = "#") \/ Trim(line) = <<>>
    THEN st
    ELSE [st EXCEPT !.section = line]

\* Config::slurp_into as a whole: [ok, out]; a line whose read fails ends it with Err
RECURSIVE slurp_rest(_, _, _, _)
slurp_rest(st, lines, bad, subcommand_prefix) ==
    IF lines = <<>> THEN [ok |-> TRUE, out |-> st.out]
    ELSE IF bad = 1 THEN [ok |-> FALSE, out |-> st.out]
    ELSE slurp_rest(slurp_line(st, Head(lines), subcommand_prefix), Tail(lines),
                    IF bad = 0 THEN 0 ELSE bad - 1, subcommand_prefix)

slurp_into(config, subcommand_prefix, acc) ==
    IF ~config.some THEN [ok |-> TRUE, out |-> acc]
    ELSE slurp_rest([section |-> config.section, out |-> acc], config.lines,
                    config.bad, subcommand_prefix)


(***************************************************************************)
(* Inputs and idle values of the components                                *)
(***************************************************************************)
FuzzyIdle ==
    /\ parser = [crate |-> "applause", known_values |-> <<>>, inferable_prefix |-> NoPrefix]
    /\ value = <<>>
    /\ parsed = Ok(<<>>)

ConfigIdle ==
    /\ env = [CM_CONFIG_PATH |-> "empty", CM_TESTING |-> FALSE, config_dir |-> FALSE]
    /\ file = [opens |-> FALSE, lines |-> <<>>, bad |-> 0]
    /\ sub = <<>>
    /\ inner = NoInner
    /\ out = <<>>
    /\ err = FALSE

\* the lines of a config file: two arguments, two section labels, a comment,
\* a blank line and an indented argument
ConfigLines ==
    { <<"-", "x">>, <<"-", "y">>, s_build, <<"b">>, <<" ", "#">>, <<" ">>,
      <<" ", "-", "x">> }

ConfigFiles == SeqsUpTo(ConfigLines, MaxLines)

SmallConfigFiles == { <<<<"-", "x">>>>, << <<"-", "x">>, s_build, <<"-", "y">> >> }

Envs == [CM_CONFIG_PATH : {"unset", "empty", "path"}, CM_TESTING : BOOLEAN,
         config_dir : BOOLEAN]

Subs == {s_build, <<"b">>, s_lit}

(***************************************************************************)
(* FuzzyParser: one parse                                                  *)
(***************************************************************************)
InitFuzzy ==
    /\ pc = "start"
    /\ parser \in [crate : {"applause", "cli"},
                   known_values : SubSeqs(KnownUniverse),
                   inferable_prefix : {NoPrefix, SomePrefix(s_check)}]
    /\ value \in Tokens
    /\ parsed = Ok(<<>>)

ParseRef ==
    /\ pc = "start"
    /\ parsed' = parse_ref(parser, value)
    /\ pc' = "parsed"
    /\ UNCHANGED <<parser, value>>
    /\ UNCHANGED <<configVars, argsVars, boolarg, litVars, cmVars, shell, translation>>

(***************************************************************************)
(* Config: from_env, then slurp_into line by line                          *)
(***************************************************************************)
InitConfig ==
    /\ pc = "start"
    /\ env \in Envs
    /\ \/ file = [opens |-> FALSE, lines |-> <<>>, bad |-> 0]
       \/ /\ ~env.CM_TESTING /\ env.config_dir
          /\ \E l \in ConfigFiles : \E b \in 0..Len(l) :
                 file = [opens |-> TRUE, lines |-> l, bad |-> b]
       \/ /\ env.CM_TESTING \/ ~env.config_dir
          /\ \E l \in SmallConfigFiles : file = [opens |-> TRUE, lines |-> l, bad |-> 0]
    /\ sub \in Subs
    /\ inner = NoInner
    /\ out = <<s_cm, sub>>
    /\ err = FALSE

\* Config::from_env()?
ConfigFromEnv ==
    /\ pc = "start"
    /\ LET r == from_env(env, file)
       IN  IF r.ok
           THEN /\ inner' = r.config
                /\ pc' = "slurp"
                /\ err' = FALSE
           ELSE /\ inner' = NoInner
                /\ pc' = "failed"
                /\ err' = TRUE
    /\ UNCHANGED <<env, file, sub, out>>
    /\ UNCHANGED <<fuzzyVars, argsVars, boolarg, litVars, cmVars, shell, translation>>

\* slurp_into with no inner: return Ok(())
SlurpNoConfig ==
    /\ pc = "slurp"
    /\ ~inner.some
    /\ pc' = "done"
    /\ UNCHANGED <<env, file, sub, inner, out, err>>
    /\ UNCHANGED <<fuzzyVars, argsVars, boolarg, litVars, cmVars, shell, translation>>

\* one iteration of the while loop
SlurpNext ==
    /\ pc = "slurp"
    /\ inner.some
    /\ inner.lines # <<>>
    /\ IF inner.bad = 1
       THEN /\ err' = TRUE
            /\ pc' = "failed"
            /\ UNCHANGED <<inner, out>>
       ELSE LET st == slurp_line([section |-> inner.section, out |-> out],
                                 Head(inner.lines), sub)
            IN  /\ inner' = [inner EXCEPT !.lines = Tail(@),
                                          !.bad = IF @ = 0 THEN 0 ELSE @ - 1,
                                          !.section = st.section]
                /\ out' = st.out
                /\ UNCHANGED <<err, pc>>
    /\ UNCHANGED <<env, file, sub>>
    /\ UNCHANGED <<fuzzyVars, argsVars, boolarg, litVars, cmVars, shell, translation>>

\* the iterator is exhausted: return Ok(())
SlurpEnd ==
    /\ pc = "slurp"
    /\ inner.some
    /\ inner.lines = <<>>
    /\ pc' = "done"
    /\ UNCHANGED <<env, file, sub, inner, out, err>>
    /\ UNCHANGED <<fuzzyVars, argsVars, boolarg, litVars, cmVars, shell, translation>>


(***************************************************************************)
(* The cooked argument vector (src/args.rs, applause_derive)               *)
(***************************************************************************)
None == [some |-> FALSE, val |-> <<>>]
Some(v) == [some |-> TRUE, val |-> v]

NoGlobals == [source |-> None, binary |-> None, config |-> None, quirks |-> None]

\* "--<name>=<value>" and "--<name>"
OptToken(name, v) == <<"-", "-", name, "=">> \o v
FlagToken(name) == <<"-", "-", name>>
t_h == <<"-", "h">>
t_help == FlagToken("help")

IsOptToken(tok, name) ==
    /\ Len(tok) >= 4
    /\ SubSeq(tok, 1, 4) = <<"-", "-", name, "=">>

\* PreCli::try_parse: the global options come from the command line before the
\* subcommand, else from their environment variables; the first token that is no
\* option starts the external subcommand, and without one the parse fails
PreCli_try_parse(c) ==
    [ok |-> c.sub_and_args # <<>>,
     globals |-> [f \in DOMAIN c.pre |->
                      IF c.pre[f].some THEN c.pre[f] ELSE c.defaults[f]],
     help_short |-> c.help_short,
     help_long |-> c.help_long,
     command |-> c.sub_and_args]

\* env::args_os(): the command line as typed
RawArgv(c) ==
    <<c.bin>>
    \o (IF c.pre.source.some THEN <<OptToken("source", c.pre.source.val)>> ELSE <<>>)
    \o (IF c.help_short THEN <<t_h>> ELSE <<>>)
    \o (IF c.help_long THEN <<t_help>> ELSE <<>>)
    \o c.sub_and_args

\* one push of data_to_vec: if let Some(ref x) = self.field { v.push("--field=" + x) }
FieldArg(g, name) ==
    IF g[name].some THEN <<OptToken(name, g[name].val)>> ELSE <<>>

\* the derived ArgsToVec::args_to_vec of Globals: one push per field, in field order
args_to_vec(g) ==
    FieldArg(g, "source") \o FieldArg(g, "binary") \o FieldArg(g, "config")
    \o FieldArg(g, "quirks")

MutBuildCliBeforeConfig(pre_cli, bin, e, f) ==
    LET subc == Head(pre_cli.command)
        sub_args == Tail(pre_cli.command)
        cfg == from_env(e, f)
        sl == slurp_into(cfg.config, subc, <<bin, subc>> \o sub_args)
    IN  IF ~cfg.ok \/ ~sl.ok THEN [ok |-> FALSE, args |-> <<>>]
        ELSE [ok |-> TRUE,
              args |-> sl.out
                       \o args_to_vec(pre_cli.globals)
                       \o (IF pre_cli.help_short THEN <<t_h>> ELSE <<>>)
                       \o (IF pre_cli.help_long THEN <<t_help>> ELSE <<>>)]

MutBuildGlobalsFirst(pre_cli, bin, e, f) ==
    LET subc == Head(pre_cli.command)
        sub_args == Tail(pre_cli.command)
        cfg == from_env(e, f)
        sl == slurp_into(cfg.config, subc, <<bin, subc>> \o args_to_vec(pre_cli.globals))
    IN  IF ~cfg.ok \/ ~sl.ok THEN [ok |-> FALSE, args |-> <<>>]
        ELSE [ok |-> TRUE,
              args |-> sl.out
                       \o (IF pre_cli.help_short THEN <<t_h>> ELSE <<>>)
                       \o (IF pre_cli.help_long THEN <<t_help>> ELSE <<>>)
                       \o sub_args]

\* build_with_pre_cli: [ok, args]
build_with_pre_cli(pre_cli, bin, e, f) ==
    LET subc == Head(pre_cli.command)
        sub_args == Tail(pre_cli.command)
        cfg == from_env(e, f)
        sl == slurp_into(cfg.config, subc, <<bin, subc>>)
    IN  IF ~cfg.ok \/ ~sl.ok THEN [ok |-> FALSE, args |-> <<>>]
        ELSE [ok |-> TRUE,
              args |-> sl.out
                       \o args_to_vec(pre_cli.globals)
                       \o (IF pre_cli.help_short THEN <<t_h>> ELSE <<>>)
                       \o (IF pre_cli.help_long THEN <<t_help>> ELSE <<>>)
                       \o sub_args]

\* build: the cooked vector, or the raw one when the pre-parse fails
build(c, e, f) ==
    LET pre_cli == PreCli_try_parse(c)
    IN  IF pre_cli.ok THEN build_with_pre_cli(pre_cli, c.bin, e, f)
        ELSE [ok |-> TRUE, args |-> RawArgv(c)]

\* the values of the occurrences of --<name>=... in an argument vector, in order
OptValues(args, name) ==
    LET occ == SelectSeq(args, LAMBDA tok : IsOptToken(tok, name))
    IN  [i \in 1..Len(occ) |-> SubSeq(occ[i], 5, Len(occ[i]))]

\* the grammar's resolution of a scalar option: the last occurrence wins
LastWins(args, name) ==
    LET vs == OptValues(args, name)
    IN  IF vs = <<>> THEN None ELSE Some(vs[Len(vs)])

\* Arg::value_delimiter(','): one value per piece
RECURSIVE SplitComma(_)
SplitComma(v) ==
    IF \A i \in 1..Len(v) : v[i] # "," THEN <<v>>
    ELSE LET k == CHOOSE i \in 1..Len(v) : v[i] = "," /\ \A j \in 1..(i - 1) : v[j] # ","
         IN  <<SubSeq(v, 1, k - 1)>> \o SplitComma(SubSeq(v, k + 1, Len(v)))

RECURSIVE ConcatAll(_)
ConcatAll(ss) == IF ss = <<>> THEN <<>> ELSE Head(ss) \o ConcatAll(Tail(ss))


\* OverridingVec::overriding_vec: ArgAction::Set with value_delimiter(','), applied
\* to the values of the option's occurrences
overriding_vec(occurrences) ==
    IF occurrences = <<>> THEN <<>>
    ELSE SplitComma(occurrences[Len(occurrences)])

ArgsIdle ==
    /\ cli = [bin |-> s_cm, pre |-> NoGlobals, defaults |-> NoGlobals,
              help_short |-> FALSE, help_long |-> FALSE, sub_and_args |-> <<>>]
    /\ cooked = [ok |-> TRUE, args |-> <<>>]


\* lines of a config file that set options, and a section label
ArgLines == {OptToken("source", <<"X">>), OptToken("flag", <<"a", ",", "b">>), s_build}

\* tokens typed after the subcommand
PostTokens == {OptToken("source", <<"Z">>), OptToken("flag", <<"c">>), <<"t.c">>}

InitArgs ==
    /\ pc = "start"
    /\ env \in {e \in Envs : e.CM_CONFIG_PATH # "unset" /\ ~e.CM_TESTING /\ e.config_dir}
    /\ \/ file = [opens |-> FALSE, lines |-> <<>>, bad |-> 0]
       \/ \E l \in SeqsUpTo(ArgLines, MaxLines - 1) :
              file = [opens |-> TRUE, lines |-> l, bad |-> 0]
    /\ \E w \in {None, Some(<<"W">>)}, y \in {None, Some(<<"Y">>)},
          b \in {None, Some(<<"B">>)}, hs \in BOOLEAN, hl \in BOOLEAN :
       \E sa \in {<<>>} \cup {<<s>> \o a : s \in {s_build, s_lit},
                                           a \in SeqsUpTo(PostTokens, MaxArgs)} :
          cli = [bin |-> s_cm,
                 pre |-> [NoGlobals EXCEPT !.source = w],
                 defaults |-> [NoGlobals EXCEPT !.source = y, !.binary = b],
                 help_short |-> hs, help_long |-> hl, sub_and_args |-> sa]
    /\ cooked = [ok |-> TRUE, args |-> <<>>]
    /\ sub = <<>>
    /\ inner = NoInner
    /\ out = <<>>
    /\ err = FALSE

\* args::build()
Build ==
    /\ pc = "start"
    /\ cooked' = build(cli, env, file)
    /\ pc' = "built"
    /\ UNCHANGED cli
    /\ UNCHANGED <<fuzzyVars, configVars, boolarg, litVars, cmVars, shell, translation>>

(***************************************************************************)
(* Boolean options (src/cli.rs, applause SettableBool)                     *)
(***************************************************************************)
\* a bool field of a clap derive struct: ArgAction::SetTrue, no value
PlainBool(name) ==
    [name |-> name, action |-> "SetTrue", num_args_max |-> 0,
     require_equals |-> FALSE, default_missing_value |-> None,
     default_value |-> FALSE]

\* SettableBool::settable_bool
settable_bool(arg) ==
    [arg EXCEPT !.num_args_max = 1, !.require_equals = TRUE,
                !.default_missing_value = Some(<<"true">>)]

\* Lit::update_resultdb: action Set, num_args 0..=1, require_equals,
\* default_value_t true, default_missing_value "true"
a_update_resultdb ==
    [name |-> "update-resultdb", action |-> "Set", num_args_max |-> 1,
     require_equals |-> TRUE, default_missing_value |-> Some(<<"true">>),
     default_value |-> TRUE]

\* the boolean options that Cli, Configure and Lit declare
BoolArgs ==
    { PlainBool("debug"), PlainBool("dry-run"), PlainBool("makefiles"),
      PlainBool("san"), PlainBool("expensive-checks"), PlainBool("print-only"),
      PlainBool("xfail-export"), a_update_resultdb, PlainBool("first"),
      PlainBool("verbose") }

\* the three spellings of a boolean option
Spellings(name) ==
    { FlagToken(name), OptToken(name, <<"true">>), OptToken(name, <<"false">>) }

\* bool::from_str
ParseBool(v) ==
    IF v = <<"true">> THEN [ok |-> TRUE, val |-> TRUE]
    ELSE IF v = <<"false">> THEN [ok |-> TRUE, val |-> FALSE]
    ELSE [ok |-> FALSE, val |-> FALSE]

\* one occurrence of the option, as its declaration makes the grammar read it:
\* a flag that takes no value rejects "=<value>"; a bare flag is true for SetTrue,
\* and its default_missing_value for Set
parse_occurrence(arg, tok) ==
    IF tok = FlagToken(arg.name)
    THEN IF arg.action = "SetTrue" THEN [ok |-> TRUE, val |-> TRUE]
         ELSE IF arg.default_missing_value.some
              THEN ParseBool(arg.default_missing_value.val)
              ELSE [ok |-> FALSE, val |-> FALSE]
    ELSE IF IsOptToken(tok, arg.name)
    THEN IF arg.num_args_max = 0 THEN [ok |-> FALSE, val |-> FALSE]
         ELSE ParseBool(SubSeq(tok, 5, Len(tok)))
    ELSE [ok |-> FALSE, val |-> FALSE]

\* the occurrences of one option in an argument vector: an occurrence that is
\* rejected fails the parse, otherwise the last occurrence wins; the option's
\* value when it does not occur is given
RECURSIVE parse_bool_arg(_, _, _)
parse_bool_arg(arg, toks, dflt) ==
    IF toks = <<>> THEN [ok |-> TRUE, val |-> dflt]
    ELSE LET r == parse_occurrence(arg, Head(toks))
         IN  IF ~r.ok THEN r ELSE parse_bool_arg(arg, Tail(toks), r.val)

BoolIdle ==
    boolarg = [arg |-> PlainBool("debug"), tokens |-> <<>>,
               result |-> [ok |-> TRUE, val |-> FALSE]]

InitBool ==
    /\ pc = "start"
    /\ \E a \in BoolArgs : \E t \in SeqsUpTo(Spellings(a.name), MaxOcc) :
           boolarg = [arg |-> a, tokens |-> t, result |-> [ok |-> TRUE, val |-> FALSE]]

\* Cli::parse on the occurrences of the option
ParseBoolArg ==
    /\ pc = "start"
    /\ boolarg' = [boolarg EXCEPT !.result = parse_bool_arg(boolarg.arg, boolarg.tokens,
                                                      boolarg.arg.default_value)]
    /\ pc' = "parsed"
    /\ UNCHANGED <<fuzzyVars, configVars, argsVars, litVars, cmVars, shell, translation>>


(***************************************************************************)
(* The lit subcommand (src/cm.rs)                                          *)
(***************************************************************************)
id_a == <<"LLVM :: ", "a.c">>
id_b == <<"LLVM :: ", "b.c">>
id_c == <<"LLVM :: ", "c.c">>
id_u == <<"u.c">>
IdUniverse == <<id_a, id_b, id_c, id_u>>

\* case(find, replace); tail: the pattern ends in ".*"
case(find, tail, replace) == [find |-> find, tail |-> tail, replace |-> replace]

\* the table REGEXES of ResultDBTest::test_path, in its order
REGEXES ==
    << case("LLVM :: ", FALSE, "test/"),
       case("LLVM-Unit :: ", TRUE, "test/Unit"),
       case("LLVM :: ", FALSE, "test/"),
       case("LLVM-Unit :: ", TRUE, "test/Unit"),
       case("Clang :: ", FALSE, "../clang/test/"),
       case("Clang-Unit :: ", TRUE, "../clang/test/Unit"),
       case("Flang :: ", FALSE, "../flang/test/"),
       case("flang-OldUnit :: ", TRUE, "../flang/test/NonGtestUnit"),
       case("flang-Unit :: ", TRUE, "../flang/test/Unit"),
       case("lld :: ", FALSE, "../lld/test/"),
       case("lldb :: ", FALSE, "../lldb/test/"),
       case("lldb-shell :: ", TRUE, "../lldb/test/Shell"),
       case("lldb-unit :: ", TRUE, "../lldb/test/Unit"),
       case("lldb-api :: ", TRUE, "../lldb/test/API"),
       case("MLIR :: ", FALSE, "../mlir/test/"),
       case("MLIR-Unit .*:: ", FALSE, "../mlir/test/Unit"),
       case("libomptarget :: [^:]* :: ", FALSE, "../openmp/libomptarget/test/"),
       case("ompt-test :: ", FALSE, "../openmp/libompd/test/"),
       case("libomp :: ", FALSE, "../openmp/runtime/test/"),
       case("OMPT multiplex :: ", FALSE, "../openmp/tools/multiplex/tests/"),
       case("libarcher :: ", FALSE, "../openmp/tools/archer/tests/"),
       case("Polly :: ", FALSE, "../polly/test/"),
       case("Polly-Unit :: ", TRUE, "../polly/test/Unit"),
       case("Polly - isl unit tests :: ", TRUE, "../polly/test/UnitIsl") >>

\* Regex::is_match: the pattern occurs somewhere in the text
is_match(rule, text) == \E i \in 1..Len(text) : text[i] = rule.find

\* Regex::replace: the leftmost match is replaced; ".*" takes the rest of the text
replace(rule, text) ==
    LET i == CHOOSE k \in 1..Len(text) :
                 text[k] = rule.find /\ \A j \in 1..(k - 1) : text[j] # rule.find
    IN  SubSeq(text, 1, i - 1) \o <<rule.replace>>
        \o (IF rule.tail THEN <<>> ELSE SubSeq(text, i + 1, Len(text)))

\* PathBuf::push
Push(path, rel) ==
    IF rel # <<>> /\ Head(rel) = "/" THEN rel
    ELSE IF path = <<>> THEN rel
    ELSE path \o <<"/">> \o rel

\* a translation in which the last matching rule of the table wins
MutTestPathLastMatch(test_id, paths) ==
    LET hits == {k \in 1..Len(REGEXES) : is_match(REGEXES[k], test_id)}
    IN  IF hits = {} THEN test_id
        ELSE LET k == CHOOSE h \in hits : \A g \in hits : h >= g
             IN  Push(paths.source, replace(REGEXES[k], test_id))

\* ResultDBTest::test_path
test_path(test_id, paths) ==
    LET hits == {k \in 1..Len(REGEXES) : is_match(REGEXES[k], test_id)}
    IN  IF hits = {} THEN test_id
        ELSE LET k == CHOOSE h \in hits : \A g \in hits : h <= g
             IN  Push(paths.source, replace(REGEXES[k], test_id))

\* Path::canonicalize of an existing relative path
Canonicalize(path) == <<"/", "cwd", "/">> \o path

\* lit_json_path: Err when the binary directory cannot be canonicalized
lit_json_path(paths, w) ==
    [ok |-> w.binary_exists, path |-> Push(Canonicalize(paths.binary), <<"lit.json">>)]

\* ResultDB::parse: Err when the path, the open or the deserialization fails
ResultDB_parse(paths, w) ==
    IF lit_json_path(paths, w).ok /\ w.snapshot.state = "ok"
    THEN [ok |-> TRUE, tests |-> w.snapshot.tests]
    ELSE [ok |-> FALSE, tests |-> <<>>]

\* the printf formats of plan_activate and plan_deactivate
activate_format ==
    <<"CM_SRC=%s CM_BIN=%s CM_CFG=%s;\\n", "export CM_SRC CM_BIN CM_CFG;\\n",
      "PATH=\"$CM_BIN/bin:$PATH\";\\n",
      "alias cm='cm -s \"$CM_SRC\" -b \"$CM_BIN\" -c \"$CM_CFG\"';\\n">>
deactivate_format ==
    <<"unalias cm;\\n", "[ -z \"$CM_BIN\" ] || PATH=\"${PATH/$CM_BIN\\/bin:/}\";\\n",
      "unset -v CM_SRC CM_BIN CM_CFG;\\n">>

\* shell_quote::bash::quote: text without special characters is left as it is
Unsafe ==
    {" ", "LLVM :: ", "\"", "Unix Makefiles", "--dump-input always", "--resultdb-output ",
     "%s\\n", "$'"}
    \cup {activate_format[i] : i \in 1..Len(activate_format)}
    \cup {deactivate_format[i] : i \in 1..Len(deactivate_format)}
NeedsQuote(text) == \E i \in 1..Len(text) : text[i] \in Unsafe
Quote(text) == IF NeedsQuote(text) THEN <<"$'">> \o text \o <<"'">> ELSE text

Command(program) == [program |-> program, args |-> <<>>, envs |-> {}]
Arg(cmd, a) == [cmd EXCEPT !.args = Append(@, a)]
Args(cmd, as) == [cmd EXCEPT !.args = @ \o as]
Env(cmd, k, v) ==
    [cmd EXCEPT !.envs = {e \in @ : e.key # k} \cup {[key |-> k, val |-> v]}]

\* Cli::final_config
final_config(c) == IF c.debug THEN <<"Debug">> ELSE c.config

\* build_cmd
build_cmd(c, paths) ==
    Arg(Arg(Arg(Arg(Arg(Command(<<"cmake">>), <<"--build">>), paths.binary),
                <<"--config">>), final_config(c)), <<"--">>)

\* add_lit_opts_env: [ok, cmd]
add_lit_opts_env(cmd, paths, w) ==
    LET p == lit_json_path(paths, w)
    IN  [ok |-> p.ok,
         cmd |-> Env(cmd, "LIT_OPTS", <<"--resultdb-output ">> \o Quote(p.path))]

\* [&str]::join
RECURSIVE Join(_, _)
Join(texts, sep) ==
    IF texts = <<>> THEN <<>>
    ELSE IF Len(texts) = 1 THEN texts[1]
    ELSE texts[1] \o <<sep>> \o Join(Tail(texts), sep)

\* Iterator::take
Take(seq, n) == SubSeq(seq, 1, IF n < Len(seq) THEN n ELSE Len(seq))


PlanErr(read) ==
    [ok |-> FALSE, cmds |-> <<>>, read |-> read, warned |-> FALSE,
     selected |-> <<>>, args |-> <<>>]
PlanOk(cmds, read, warned, selected, args) ==
    [ok |-> TRUE, cmds |-> cmds, read |-> read, warned |-> warned,
     selected |-> selected, args |-> args]

\* the branch of plan_lit for --xfail-export
plan_lit_xfail(l, c, paths, w) ==
    LET db == ResultDB_parse(paths, w)
        failing == SelectSeq(db.tests, LAMBDA t : ~t.expected)
        ids == [i \in 1..Len(failing) |-> failing[i].test_id]
        cmd == Arg(Arg(Command(<<"printf">>), <<"%s\\n">>),
                   <<"export LIT_XFAIL=\"">> \o Join(ids, ";") \o <<"\"">>)
    IN  IF db.ok THEN PlanOk(<<cmd>>, TRUE, FALSE, <<>>, <<>>) ELSE PlanErr(TRUE)

\* a group command that carries the result-tracking variable whatever -u says
MutGroupAlwaysTracks(l, c, paths, w) ==
    LET withenv == add_lit_opts_env(Arg(build_cmd(c, paths), l.group.val), paths, w)
    IN  IF withenv.ok THEN PlanOk(<<withenv.cmd>>, FALSE, FALSE, <<>>, <<>>)
        ELSE PlanErr(FALSE)

\* the branch of plan_lit for --group
plan_lit_group(l, c, paths, w) ==
    LET cmd == Arg(build_cmd(c, paths), l.group.val)
        withenv == add_lit_opts_env(cmd, paths, w)
    IN  IF l.update_resultdb
        THEN IF withenv.ok THEN PlanOk(<<withenv.cmd>>, FALSE, FALSE, <<>>, <<>>)
             ELSE PlanErr(FALSE)
        ELSE PlanOk(<<cmd>>, FALSE, FALSE, <<>>, <<>>)

MutSelectFirstOfAll(l, paths, w) ==
    IF l.tests = <<>>
    THEN LET db == ResultDB_parse(paths, w)
             taken == SelectSeq(Take(db.tests, IF l.first THEN 1 ELSE Len(db.tests)),
                                LAMBDA t : ~t.expected)
         IN  [read |-> TRUE, warned |-> ~db.ok,
              paths |-> IF db.ok
                        THEN [i \in 1..Len(taken) |-> test_path(taken[i].test_id, paths)]
                        ELSE <<>>]
    ELSE [read |-> FALSE, warned |-> FALSE, paths |-> l.tests]

\* the test list of plan_lit (the initial value of args): the failing tests of the
\* snapshot, or the explicit tests
select_tests(l, paths, w) ==
    IF l.tests = <<>>
    THEN LET db == ResultDB_parse(paths, w)
             failing == SelectSeq(db.tests, LAMBDA t : ~t.expected)
             taken == Take(failing, IF l.first THEN 1 ELSE Len(failing))
         IN  [read |-> TRUE, warned |-> ~db.ok,
              paths |-> IF db.ok
                        THEN [i \in 1..Len(taken) |-> test_path(taken[i].test_id, paths)]
                        ELSE <<>>]
    ELSE [read |-> FALSE, warned |-> FALSE, paths |-> l.tests]

\* plan_lit
plan_lit(l, c, paths, w) ==
    IF l.xfail_export THEN plan_lit_xfail(l, c, paths, w)
    ELSE IF l.group.some THEN plan_lit_group(l, c, paths, w)
    ELSE LET sel == select_tests(l, paths, w)
             args == sel.paths \o l.args
             printer == Args(Arg(Command(<<"printf">>), <<"%s\\n">>), args)
             runner0 == Command(Push(paths.binary, <<"bin/llvm-lit">>))
             runner1 == IF l.verbose
                        THEN Arg(Env(runner0, "FILECHECK_OPTS", <<"--dump-input always">>),
                                 <<"-a">>)
                        ELSE runner0
             runner == Args(runner1, args)
             withenv == add_lit_opts_env(runner, paths, w)
         IN  IF args = <<>> THEN PlanOk(<<>>, sel.read, sel.warned, sel.paths, args)
             ELSE IF l.print_only
             THEN PlanOk(<<printer>>, sel.read, sel.warned, sel.paths, args)
             ELSE IF l.update_resultdb
             THEN IF withenv.ok
                  THEN PlanOk(<<withenv.cmd>>, sel.read, sel.warned, sel.paths, args)
                  ELSE [PlanErr(sel.read) EXCEPT !.warned = sel.warned]
             ELSE PlanOk(<<runner>>, sel.read, sel.warned, sel.paths, args)

\* the value clap gives Lit::update_resultdb: the one supplied, else false when
\* --first or TESTS are present, else true
update_resultdb_value(given, first, tests) ==
    IF given # "none" THEN given = "true"
    ELSE IF first \/ tests # <<>> THEN FALSE
    ELSE TRUE

\* the snapshots: records for some of the test ids, each passing or failing
Snapshots ==
    { [i \in 1..Len(ids) |-> [expected |-> e[i], test_id |-> ids[i]]] :
          ids \in SubSeqs(IdUniverse), e \in [1..Len(IdUniverse) -> BOOLEAN] }

\* what the group "select" of Lit allows: at most one of --group, --first, TESTS
Selections ==
    { [group |-> None, first |-> FALSE, tests |-> <<>>],
      [group |-> Some(s_check \o s_all), first |-> FALSE, tests |-> <<>>],
      [group |-> None, first |-> TRUE, tests |-> <<>>],
      [group |-> None, first |-> FALSE, tests |-> << <<"x.c">> >>],
      [group |-> None, first |-> FALSE, tests |-> << <<"y.c">>, <<"x.c">> >>] }

LitIdle ==
    /\ lit = [print_only |-> FALSE, xfail_export |-> FALSE, update_given |-> "none",
              update_resultdb |-> TRUE, group |-> None, first |-> FALSE,
              verbose |-> FALSE, tests |-> <<>>, args |-> <<>>]
    /\ world = [cli |-> [config |-> <<"Release">>, debug |-> FALSE],
                paths |-> [source |-> <<".">>, binary |-> <<"build">>],
                binary_exists |-> FALSE,
                snapshot |-> [state |-> "absent", tests |-> <<>>]]
    /\ planned = PlanOk(<<>>, FALSE, FALSE, <<>>, <<>>)

InitLit ==
    /\ pc = "start"
    /\ \E s \in Selections, g \in {"none", "true", "false"}, po \in BOOLEAN,
          x \in BOOLEAN, v \in BOOLEAN, a \in {<<>>, << <<"-vv">> >>} :
           lit = [print_only |-> po, xfail_export |-> x, update_given |-> g,
                  update_resultdb |-> update_resultdb_value(g, s.first, s.tests),
                  group |-> s.group, first |-> s.first, verbose |-> v,
                  tests |-> s.tests, args |-> a]
    /\ \E src \in {<<".">>, <<"llvm">>} :
       \E snap \in {[state |-> "absent", tests |-> <<>>],
                    [state |-> "malformed", tests |-> <<>>]}
                   \cup {[state |-> "ok", tests |-> t] : t \in Snapshots} :
       \E be \in BOOLEAN :
           /\ (~be => snap.state = "absent")
           /\ world = [cli |-> [config |-> <<"Release">>, debug |-> FALSE],
                       paths |-> [source |-> src, binary |-> <<"build">>],
                       binary_exists |-> be,
                       snapshot |-> snap]
    /\ planned = PlanOk(<<>>, FALSE, FALSE, <<>>, <<>>)

\* plan(): Command::Lit
PlanLit ==
    /\ pc = "start"
    /\ planned' = plan_lit(lit, world.cli, world.paths, world)
    /\ pc' = "planned"
    /\ UNCHANGED <<lit, world>>
    /\ UNCHANGED <<fuzzyVars, configVars, argsVars, boolarg, cmVars, shell, translation>>

(***************************************************************************)
(* Planning of configure, build, activate, deactivate (src/cm.rs)          *)
(***************************************************************************)
\* a probe that takes every failure to start the program for its absence
MutHasCommandErrIsAbsent(name, h) ==
    IF h.CM_TESTING THEN "true"
    ELSE IF name \in h.commands THEN "true"
    ELSE "false"

\* has_command: Ok(true) under CM_TESTING or when the program can be spawned,
\* Ok(false) when it is not found, Err for any other spawn error
has_command(name, h) ==
    IF h.CM_TESTING THEN "true"
    ELSE IF name \in h.denied THEN "err"
    ELSE IF name \in h.commands THEN "true"
    ELSE "false"

\* has_cc_flag: whether the compiler "cc" exits successfully when given the flag
has_cc_flag(name, h) ==
    IF "cc" \in h.denied THEN "err"
    ELSE IF "cc" \notin h.commands THEN "false"
    ELSE IF name \in h.cc_flags THEN "true"
    ELSE "false"

\* a && b with the ? operator on both sides: b is evaluated only when a is true
AndThen(a, b) == IF a = "true" THEN b ELSE a

Part(ok, args) == [ok |-> ok, args |-> args]

\* plan_configure: the arguments added for Quirks::Llvm
llvm_quirk_args(h) ==
    LET sphinx == has_command("sphinx-build", h)
        lld == AndThen(has_command("lld", h), has_cc_flag("-fuse-ld=lld", h))
        gold == AndThen(has_command("gold", h), has_cc_flag("-fuse-ld=gold", h))
    IN  IF sphinx = "err" \/ lld = "err" \/ (lld = "false" /\ gold = "err")
        THEN Part(FALSE, <<>>)
        ELSE Part(TRUE,
                  << <<"-DLLVM_ENABLE_ASSERTIONS=On">>, <<"-DLLVM_OPTIMIZED_TABLEGEN=On">> >>
                  \o (IF sphinx = "true" THEN << <<"-DLLVM_ENABLE_SPHINX=On">> >> ELSE <<>>)
                  \o (IF lld = "true" THEN << <<"-DLLVM_USE_LINKER=lld">> >>
                      ELSE IF gold = "true" THEN << <<"-DLLVM_USE_LINKER=gold">> >>
                      ELSE <<>>))

\* plan_configure: the compiler launcher
ccache_args(quirks, h) ==
    LET ccache == has_command("ccache", h)
    IN  IF ccache = "err" THEN Part(FALSE, <<>>)
        ELSE IF ccache = "false" THEN Part(TRUE, <<>>)
        ELSE IF quirks = "None"
        THEN Part(TRUE, << <<"-DCMAKE_C_COMPILER_LAUNCHER=ccache">>,
                           <<"-DCMAKE_CXX_COMPILER_LAUNCHER=ccache">> >>)
        ELSE Part(TRUE, << <<"-DLLVM_CCACHE_BUILD=On">> >>)

\* Option<Vec<String>>::map_or(default, |v| v.join(";"))
map_or_join(opt, dflt) == IF opt.some THEN Join(opt.val, ";") ELSE dflt

\* plan_configure: the value of -DLLVM_TARGETS_TO_BUILD=
targets_to_build_value(configure) == map_or_join(configure.targets_to_build, <<"all">>)

\* a configure plan that always puts a space before the inherited flags
MutConfigureAlwaysSpace(configure, c, quirks, paths, h) ==
    LET head == << <<"-S">>, paths.source, <<"-B">>, paths.binary, <<"-G">>,
                   (IF configure.makefiles THEN <<"Unix Makefiles">>
                    ELSE configure.generator),
                   <<"-DCMAKE_BUILD_TYPE=">> \o final_config(c),
                   <<"-DCMAKE_PREFIX_PATH=">> \o Join(configure.prefix_path, ";"),
                   <<"-DCMAKE_INSTALL_PREFIX=dist">>,
                   <<"-DCMAKE_EXPORT_COMPILE_COMMANDS=On">> >>
        llvm == IF quirks = "Llvm" THEN llvm_quirk_args(h) ELSE Part(TRUE, <<>>)
        ccache == ccache_args(quirks, h)
        color == has_cc_flag("-fcolor-diagnostics", h)
        flags0 == (IF color = "true" THEN << <<"-fcolor-diagnostics">> >> ELSE <<>>)
                  \o (IF configure.san /\ quirks = "None"
                      THEN << <<"-fsanitize=address,undefined">> >> ELSE <<>>)
        san == IF configure.san /\ quirks = "Llvm"
               THEN << <<"-DLLVM_USE_SANITIZER=Address;Undefined">>,
                       <<"-DLLVM_USE_SANITIZE_COVERAGE=Yes">> >>
               ELSE <<>>
        checks == IF configure.expensive_checks
                  THEN << <<"-DLLVM_ENABLE_EXPENSIVE_CHECKS=On">>,
                          <<"-DLLVM_ENABLE_WERROR=Off">> >>
                  ELSE <<>>
        lists == << <<"-DLLVM_ENABLE_PROJECTS=">>
                        \o map_or_join(configure.enable_projects, <<"llvm;clang;lld">>),
                    <<"-DLLVM_TARGETS_TO_BUILD=">> \o targets_to_build_value(configure) >>
        flags == Join(flags0 \o configure.flag, " ")
        maybe_prepend_space(v) == <<" ">> \o v
        env_cflags == IF h.CFLAGS.some THEN maybe_prepend_space(h.CFLAGS.val) ELSE <<>>
        env_cxxflags == IF h.CXXFLAGS.some THEN maybe_prepend_space(h.CXXFLAGS.val)
                        ELSE <<>>
        tail == << <<"-DCMAKE_C_FLAGS=">> \o flags \o env_cflags,
                   <<"-DCMAKE_CXX_FLAGS=">> \o flags \o env_cxxflags >>
        cmd == Args(Command(<<"cmake">>),
                    head \o llvm.args \o ccache.args \o san \o checks \o lists \o tail
                    \o configure.args)
        rm_cmd == Args(Command(<<"rm">>),
                       << <<"-rf">>, Push(paths.binary, <<"CMakeCache.txt">>),
                          Push(paths.binary, <<"CMakeFiles">>) >>)
    IN  IF ~llvm.ok \/ ~ccache.ok \/ color = "err" THEN [ok |-> FALSE, cmds |-> <<>>]
        ELSE [ok |-> TRUE, cmds |-> <<rm_cmd, cmd>>]

\* plan_configure
plan_configure(configure, c, quirks, paths, h) ==
    LET head == << <<"-S">>, paths.source, <<"-B">>, paths.binary, <<"-G">>,
                   (IF configure.makefiles THEN <<"Unix Makefiles">>
                    ELSE configure.generator),
                   <<"-DCMAKE_BUILD_TYPE=">> \o final_config(c),
                   <<"-DCMAKE_PREFIX_PATH=">> \o Join(configure.prefix_path, ";"),
                   <<"-DCMAKE_INSTALL_PREFIX=dist">>,
                   <<"-DCMAKE_EXPORT_COMPILE_COMMANDS=On">> >>
        llvm == IF quirks = "Llvm" THEN llvm_quirk_args(h) ELSE Part(TRUE, <<>>)
        ccache == ccache_args(quirks, h)
        color == has_cc_flag("-fcolor-diagnostics", h)
        flags0 == (IF color = "true" THEN << <<"-fcolor-diagnostics">> >> ELSE <<>>)
                  \o (IF configure.san /\ quirks = "None"
                      THEN << <<"-fsanitize=address,undefined">> >> ELSE <<>>)
        san == IF configure.san /\ quirks = "Llvm"
               THEN << <<"-DLLVM_USE_SANITIZER=Address;Undefined">>,
                       <<"-DLLVM_USE_SANITIZE_COVERAGE=Yes">> >>
               ELSE <<>>
        checks == IF configure.expensive_checks
                  THEN << <<"-DLLVM_ENABLE_EXPENSIVE_CHECKS=On">>,
                          <<"-DLLVM_ENABLE_WERROR=Off">> >>
                  ELSE <<>>
        lists == << <<"-DLLVM_ENABLE_PROJECTS=">>
                        \o map_or_join(configure.enable_projects, <<"llvm;clang;lld">>),
                    <<"-DLLVM_TARGETS_TO_BUILD=">> \o targets_to_build_value(configure) >>
        flags == Join(flags0 \o configure.flag, " ")
        maybe_prepend_space(v) == IF flags # <<>> THEN <<" ">> \o v ELSE v
        env_cflags == IF h.CFLAGS.some THEN maybe_prepend_space(h.CFLAGS.val) ELSE <<>>
        env_cxxflags == IF h.CXXFLAGS.some THEN maybe_prepend_space(h.CXXFLAGS.val)
                        ELSE <<>>
        tail == << <<"-DCMAKE_C_FLAGS=">> \o flags \o env_cflags,
                   <<"-DCMAKE_CXX_FLAGS=">> \o flags \o env_cxxflags >>
        cmd == Args(Command(<<"cmake">>),
                    head \o llvm.args \o ccache.args \o san \o checks \o lists \o tail
                    \o configure.args)
        rm_cmd == Args(Command(<<"rm">>),
                       << <<"-rf">>, Push(paths.binary, <<"CMakeCache.txt">>),
                          Push(paths.binary, <<"CMakeFiles">>) >>)
    IN  IF ~llvm.ok \/ ~ccache.ok \/ color = "err" THEN [ok |-> FALSE, cmds |-> <<>>]
        ELSE [ok |-> TRUE, cmds |-> <<rm_cmd, cmd>>]

\* plan_build
plan_build(build_, c, paths) ==
    [ok |-> TRUE, cmds |-> << Args(build_cmd(c, paths), build_.args) >>]

\* plan_activate
plan_activate(c, paths) ==
    [ok |-> TRUE,
     cmds |-> << Args(Command(<<"printf">>),
                      <<activate_format, Quote(paths.source), Quote(paths.binary),
                        Quote(final_config(c))>>) >>]

\* plan_deactivate
plan_deactivate ==
    [ok |-> TRUE, cmds |-> << Arg(Command(<<"printf">>), deactivate_format) >>]

\* plan
plan(command, c, quirks, paths, h, w) ==
    CASE command.kind = "configure" -> plan_configure(command.configure, c, quirks, paths, h)
      [] command.kind = "build" -> plan_build(command.build, c, paths)
      [] command.kind = "lit" ->
             LET p == plan_lit(command.lit, c, paths, w)
             IN  [ok |-> p.ok, cmds |-> p.cmds]
      [] command.kind = "activate" -> plan_activate(c, paths)
      [] command.kind = "deactivate" -> plan_deactivate

\* a detection that looks only for the directory llvm
MutDetectLlvmDirOnly(c, fs) ==
    LET source == IF c.source.some THEN c.source.val ELSE <<".">>
        cml == Push(source, <<"CMakeLists.txt">>)
        llvm == Push(source, <<"llvm">>)
    IN  [quirks |-> IF fs.llvm_is_dir THEN "Llvm" ELSE "None",
         stats |-> <<cml>> \o (IF ~fs.cml_is_file THEN <<llvm>> ELSE <<>>)]

(***************************************************************************)
(* cm(): quirks, paths, plan, then the loop over the commands (src/cm.rs)  *)
(***************************************************************************)
\* detect_quirks: the quirks detected under the source directory, and the paths it
\* queried (llvm.is_dir() is evaluated only when cml.is_file() is false)
detect_quirks(c, fs) ==
    LET source == IF c.source.some THEN c.source.val ELSE <<".">>
        cml == Push(source, <<"CMakeLists.txt">>)
        llvm == Push(source, <<"llvm">>)
    IN  [quirks |-> IF ~fs.cml_is_file /\ fs.llvm_is_dir THEN "Llvm" ELSE "None",
         stats |-> <<cml>> \o (IF ~fs.cml_is_file THEN <<llvm>> ELSE <<>>)]

\* Option::unwrap_or: the argument is a value, computed by the caller
unwrap_or(opt, dflt) == IF opt.some THEN opt.val ELSE dflt

\* cm: quirks, source, binary, paths
cm_resolve(c, fs) ==
    LET detected == detect_quirks(c, fs)
        quirks == unwrap_or(c.quirks, detected.quirks)
        source == unwrap_or(c.source, IF quirks = "None" THEN <<".">> ELSE <<"llvm">>)
        binary == unwrap_or(c.binary, <<"build">>)
    IN  [quirks |-> quirks, stats |-> detected.stats,
         paths |-> [source |-> source, binary |-> binary]]

\* Command::get_envs: the overrides in the order of their keys
EnvKeys == <<"FILECHECK_OPTS", "LIT_OPTS">>
get_envs(cmd) ==
    LET present == SelectSeq(EnvKeys, LAMBDA k : \E e \in cmd.envs : e.key = k)
    IN  [i \in 1..Len(present) |-> CHOOSE e \in cmd.envs : e.key = present[i]]

\* a line that names the program before the environment overrides
MutLineProgramFirst(cmd) ==
    LET envs == get_envs(cmd)
    IN  Join(<<Quote(cmd.program)>>
             \o [i \in 1..Len(envs) |-> Quote(<<envs[i].key>>) \o <<"=">> \o Quote(envs[i].val)]
             \o [i \in 1..Len(cmd.args) |-> Quote(cmd.args[i])], " ")

\* cm: the line printed for a command under --dry-run
dry_run_line(cmd) ==
    LET envs == get_envs(cmd)
    IN  Join([i \in 1..Len(envs) |-> Quote(<<envs[i].key>>) \o <<"=">> \o Quote(envs[i].val)]
             \o <<Quote(cmd.program)>>
             \o [i \in 1..Len(cmd.args) |-> Quote(cmd.args[i])], " ")

\* ExitStatus: the exit code, or none when a signal ended the process
ExitCode(n) == [some |-> TRUE, code |-> n]
NoExitCode == [some |-> FALSE, code |-> 0]
Statuses == {ExitCode(0), ExitCode(1), ExitCode(2), NoExitCode}

\* a loop that goes on after a command that was ended by a signal
MutSuccessOrSignal(status) == ~status.some \/ status.code = 0

\* ExitStatus::success
success(status) == status.some /\ status.code = 0

\* main: exit(e.0.unwrap_or(-1)) for a CommandFailedError
exit_code(status) == IF status.some THEN status.code ELSE -1

Running == [exited |-> FALSE, code |-> 0]
Exited(n) == [exited |-> TRUE, code |-> n]

\* Configure as clap fills it without options
NoConfigure ==
    [prefix_path |-> <<>>, generator |-> <<"Ninja">>, makefiles |-> FALSE, flag |-> <<>>,
     san |-> FALSE, expensive_checks |-> FALSE, enable_projects |-> None,
     targets_to_build |-> None, targets_to_build_alt |-> None, args |-> <<>>]

\* what the group "targets" of Configure allows: -t or -T, not both
TargetChoices ==
    { [t |-> None, alt |-> None],
      [t |-> Some(<< <<"AMDGPU">> >>), alt |-> None],
      [t |-> Some(<< <<"AMDGPU">>, <<"X86">> >>), alt |-> None],
      [t |-> None, alt |-> Some(<< <<"AMDGPU">> >>)] }

Configures ==
    { [NoConfigure EXCEPT !.targets_to_build = tc.t, !.targets_to_build_alt = tc.alt,
                          !.enable_projects = p] :
          tc \in TargetChoices, p \in {None, Some(<< <<"clang">>, <<"lld">> >>)} }
    \cup { [NoConfigure EXCEPT !.san = TRUE],
           [NoConfigure EXCEPT !.makefiles = TRUE, !.expensive_checks = TRUE],
           [NoConfigure EXCEPT !.flag = << <<"-O1">> >>, !.prefix_path = << <<"/opt/a">>, <<"/opt/b">> >>,
                               !.args = << <<"-Wdev">> >>],
           [NoConfigure EXCEPT !.san = TRUE, !.flag = << <<"-O1">>, <<"-g0">> >>] }

\* the machine that plan_configure probes: the variables of the environment, the
\* programs that can be spawned, those whose spawn fails for another reason than
\* NotFound, and the flags the compiler accepts
Hosts ==
    { [CM_TESTING |-> TRUE, commands |-> {}, denied |-> {}, cc_flags |-> {},
       CFLAGS |-> Some(<<"--user-c-flag">>), CXXFLAGS |-> Some(<<"--user-cxx-flag">>)],
      [CM_TESTING |-> FALSE, commands |-> {"cc", "ccache", "lld", "sphinx-build"},
       denied |-> {}, cc_flags |-> {"-fuse-ld=lld", "-fcolor-diagnostics"},
       CFLAGS |-> None, CXXFLAGS |-> None],
      [CM_TESTING |-> FALSE, commands |-> {"cc", "gold", "lld"}, denied |-> {},
       cc_flags |-> {"-fuse-ld=gold"}, CFLAGS |-> Some(<<"-g">>), CXXFLAGS |-> None],
      [CM_TESTING |-> FALSE, commands |-> {}, denied |-> {}, cc_flags |-> {},
       CFLAGS |-> None, CXXFLAGS |-> None],
      [CM_TESTING |-> FALSE, commands |-> {"cc"}, denied |-> {"ccache"}, cc_flags |-> {},
       CFLAGS |-> None, CXXFLAGS |-> None],
      [CM_TESTING |-> FALSE, commands |-> {"lld"}, denied |-> {"cc"}, cc_flags |-> {},
       CFLAGS |-> None, CXXFLAGS |-> None],
      [CM_TESTING |-> FALSE, commands |-> {"cc"}, denied |-> {},
       cc_flags |-> {"-fcolor-diagnostics"},
       CFLAGS |-> Some(<<"-g">>), CXXFLAGS |-> Some(<<"-std=c++17">>)],
      [CM_TESTING |-> FALSE, commands |-> {"cc"}, denied |-> {"gold"}, cc_flags |-> {},
       CFLAGS |-> None, CXXFLAGS |-> None],
      [CM_TESTING |-> TRUE, commands |-> {"cc"}, denied |-> {"ccache"}, cc_flags |-> {},
       CFLAGS |-> None, CXXFLAGS |-> None] }
PlainHost == CHOOSE h \in Hosts : ~h.CM_TESTING /\ h.commands = {}

NoLit ==
    [print_only |-> FALSE, xfail_export |-> FALSE, update_given |-> "none",
     update_resultdb |-> TRUE, group |-> None, first |-> FALSE, verbose |-> FALSE,
     tests |-> <<>>, args |-> <<>>]
NoBuild == [args |-> <<>>]

CommandOf(kind, configure, build_, l) ==
    [kind |-> kind, configure |-> configure, build |-> build_, lit |-> l]

\* the subcommands given to cm()
Commands ==
    { CommandOf("configure", cf, NoBuild, NoLit) : cf \in Configures }
    \cup { CommandOf("build", NoConfigure, b, NoLit) :
               b \in {NoBuild, [args |-> << <<"check-llvm">> >>]} }
    \cup { CommandOf("lit", NoConfigure, NoBuild, l) :
               l \in { [NoLit EXCEPT !.verbose = TRUE],
                       [NoLit EXCEPT !.tests = << <<"x.c">> >>, !.update_resultdb = FALSE],
                       [NoLit EXCEPT !.group = Some(s_check \o s_all)] } }
    \cup { CommandOf("activate", NoConfigure, NoBuild, NoLit),
           CommandOf("deactivate", NoConfigure, NoBuild, NoLit) }

\* the binary directory and its lit.json, as plan_lit finds them
LitWorld ==
    [binary_exists |-> TRUE,
     snapshot |-> [state |-> "ok",
                   tests |-> << [expected |-> FALSE, test_id |-> id_a],
                                [expected |-> TRUE, test_id |-> id_b] >>]]

NoProc == [k |-> 1, started |-> <<>>, statuses |-> <<>>, printed |-> <<>>, exit |-> Running]

CmIdle ==
    /\ invocation = [cli |-> [source |-> None, binary |-> None, config |-> <<"Release">>,
                              debug |-> FALSE, dry_run |-> FALSE, quirks |-> None,
                              command |-> CommandOf("deactivate", NoConfigure, NoBuild, NoLit)],
                     fs |-> [cml_is_file |-> FALSE, llvm_is_dir |-> FALSE],
                     host |-> PlainHost, lit_world |-> LitWorld]
    /\ resolved = [quirks |-> "None", stats |-> <<>>,
                   paths |-> [source |-> <<".">>, binary |-> <<"build">>]]
    /\ plan_cmds = [ok |-> TRUE, cmds |-> <<>>]
    /\ proc = NoProc

InitCm ==
    /\ pc = "start"
    /\ \E src \in {None, Some(<<"/proj">>)}, bin \in {None, Some(<<"out">>)},
          q \in {None, Some("None"), Some("Llvm")}, dbg \in BOOLEAN, dry \in BOOLEAN,
          cmd \in Commands, cml \in BOOLEAN, dir \in BOOLEAN, h \in Hosts :
           /\ (cmd.kind # "configure" => h = PlainHost)
           /\ (dbg => cmd.kind \in {"activate", "build"})
           /\ invocation = [cli |-> [source |-> src, binary |-> bin, config |-> <<"Release">>,
                                     debug |-> dbg, dry_run |-> dry, quirks |-> q,
                                     command |-> cmd],
                            fs |-> [cml_is_file |-> cml, llvm_is_dir |-> dir],
                            host |-> h, lit_world |-> LitWorld]
    /\ resolved = [quirks |-> "None", stats |-> <<>>,
                   paths |-> [source |-> <<".">>, binary |-> <<"build">>]]
    /\ plan_cmds = [ok |-> TRUE, cmds |-> <<>>]
    /\ proc = NoProc

\* cm, up to the loop: quirks, paths and plan(...)?; main exits with -1 on Err
CmPlan ==
    /\ pc = "start"
    /\ LET r == cm_resolve(invocation.cli, invocation.fs)
           p == plan(invocation.cli.command, invocation.cli, r.quirks, r.paths,
                     invocation.host, invocation.lit_world)
       IN  /\ resolved' = r
           /\ plan_cmds' = p
           /\ IF p.ok THEN pc' = "loop" /\ proc' = proc
              ELSE pc' = "exited" /\ proc' = [proc EXCEPT !.exit = Exited(-1)]
    /\ UNCHANGED invocation
    /\ UNCHANGED <<fuzzyVars, configVars, argsVars, boolarg, litVars, shell, translation>>

\* cm, one turn of the loop under --dry-run: println!
CmPrint ==
    /\ pc = "loop"
    /\ invocation.cli.dry_run
    /\ proc.k <= Len(plan_cmds.cmds)
    /\ proc' = [proc EXCEPT !.printed = Append(@, dry_run_line(plan_cmds.cmds[proc.k])),
                            !.k = @ + 1]
    /\ UNCHANGED <<pc, invocation, resolved, plan_cmds>>
    /\ UNCHANGED <<fuzzyVars, configVars, argsVars, boolarg, litVars, shell, translation>>

\* cm, one turn of the loop: cmd.status() spawns the command, or fails to
CmSpawn ==
    /\ pc = "loop"
    /\ ~invocation.cli.dry_run
    /\ proc.k <= Len(plan_cmds.cmds)
    /\ \E spawned \in BOOLEAN :
           IF spawned
           THEN /\ proc' = [proc EXCEPT !.started = Append(@, plan_cmds.cmds[proc.k])]
                /\ pc' = "wait"
           ELSE /\ proc' = [proc EXCEPT !.exit = Exited(-1)]
                /\ pc' = "exited"
    /\ UNCHANGED <<invocation, resolved, plan_cmds>>
    /\ UNCHANGED <<fuzzyVars, configVars, argsVars, boolarg, litVars, shell, translation>>

\* cm, one turn of the loop: cmd.status() returns the status of the command; a
\* failure leaves through CommandFailedError and main's exit
CmWait ==
    /\ pc = "wait"
    /\ \E status \in Statuses :
           IF success(status)
           THEN /\ proc' = [proc EXCEPT !.statuses = Append(@, status), !.k = @ + 1]
                /\ pc' = "loop"
           ELSE /\ proc' = [proc EXCEPT !.statuses = Append(@, status),
                                        !.exit = Exited(exit_code(status))]
                /\ pc' = "exited"
    /\ UNCHANGED <<invocation, resolved, plan_cmds>>
    /\ UNCHANGED <<fuzzyVars, configVars, argsVars, boolarg, litVars, shell, translation>>

\* cm returns Ok(()) after the last command; main returns
CmReturn ==
    /\ pc = "loop"
    /\ proc.k > Len(plan_cmds.cmds)
    /\ proc' = [proc EXCEPT !.exit = Exited(0)]
    /\ pc' = "exited"
    /\ UNCHANGED <<invocation, resolved, plan_cmds>>
    /\ UNCHANGED <<fuzzyVars, configVars, argsVars, boolarg, litVars, shell, translation>>

(***************************************************************************)
(* A shell evaluating the output of activate and deactivate                *)
(***************************************************************************)
\* what the shell makes of a word written by shell_quote::bash::quote
Unquote(word) ==
    IF Len(word) >= 2 /\ Head(word) = "$'" /\ word[Len(word)] = "'"
    THEN SubSeq(word, 2, Len(word) - 1)
    ELSE word

\* pattern matching of the shell: "*" matches any text, anything else itself
RECURSIVE GlobMatch(_, _)
GlobMatch(pat, text) ==
    IF pat = <<>> THEN text = <<>>
    ELSE IF Head(pat) = "*"
    THEN \E k \in 0..Len(text) : GlobMatch(Tail(pat), SubSeq(text, k + 1, Len(text)))
    ELSE text # <<>> /\ Head(text) = Head(pat) /\ GlobMatch(Tail(pat), Tail(text))

\* ${text/pat/}: the longest match of pat at the first place where it matches is
\* removed
PatSubst(text, pat) ==
    LET matches == {m \in (1..Len(text)) \X (0..Len(text)) :
                        m[2] >= m[1] - 1 /\ GlobMatch(pat, SubSeq(text, m[1], m[2]))}
    IN  IF matches = {} THEN text
        ELSE LET i == CHOOSE a \in {m[1] : m \in matches} :
                          \A b \in {m[1] : m \in matches} : a <= b
                 j == CHOOSE a \in {m[2] : m \in {n \in matches : n[1] = i}} :
                          \A b \in {m[2] : m \in {n \in matches : n[1] = i}} : a >= b
             IN  SubSeq(text, 1, i - 1) \o SubSeq(text, j + 1, Len(text))

bin_dir == <<"/", "bin", ":">>

\* eval of the output of plan_activate: the three assignments, the export, PATH
eval_activate(sh, cmd) ==
    [sh EXCEPT !.CM_SRC = Some(Unquote(cmd.args[2])),
               !.CM_BIN = Some(Unquote(cmd.args[3])),
               !.CM_CFG = Some(Unquote(cmd.args[4])),
               !.PATH = Unquote(cmd.args[3]) \o bin_dir \o sh.PATH,
               !.alias = TRUE]

\* eval of the output of plan_deactivate: unalias, the substitution in PATH unless
\* CM_BIN is empty or unset, unset
eval_deactivate(sh) ==
    [sh EXCEPT !.PATH = IF ~sh.CM_BIN.some \/ sh.CM_BIN.val = <<>> THEN sh.PATH
                        ELSE PatSubst(sh.PATH, sh.CM_BIN.val \o bin_dir),
               !.CM_SRC = None, !.CM_BIN = None, !.CM_CFG = None,
               !.alias = FALSE]

\* values of PATH, none of them empty
ShellPaths ==
    { <<"/", "bin">>,
      <<"/", "usr", "/", "bin", ":", "/", "bin">>,
      <<"build", "/", "bin", ":", "/", "usr", "/", "bin">>,
      <<"/", "opt", "/", "bin", ":", "/", "usr", "/", "bin", ":", "/", "sbin">>,
      <<".">> }

\* resolved binary directories; "b*" and "a b" name directories too
ShellBinaries ==
    { <<"build">>, <<"out">>, <<"/", "opt">>, <<"a", " ", "b">>, <<"b", "*">>, <<"*">> }

ShellIdle ==
    shell = [CM_SRC |-> None, CM_BIN |-> None, CM_CFG |-> None, PATH |-> <<"/", "bin">>,
             alias |-> FALSE, orig_PATH |-> <<"/", "bin">>,
             cli |-> [config |-> <<"Release">>, debug |-> FALSE],
             paths |-> [source |-> <<".">>, binary |-> <<"build">>]]

InitShell ==
    /\ pc = "start"
    /\ \E path \in ShellPaths, bin \in ShellBinaries, src \in {<<".">>, <<"llvm">>, <<"my", " ", "src">>},
          dbg \in BOOLEAN :
           shell = [CM_SRC |-> None, CM_BIN |-> None, CM_CFG |-> None, PATH |-> path,
                    alias |-> FALSE, orig_PATH |-> path,
                    cli |-> [config |-> <<"Release">>, debug |-> dbg],
                    paths |-> [source |-> src, binary |-> bin]]

\* eval "$(cm activate)"
EvalActivate ==
    /\ pc = "start"
    /\ shell' = eval_activate(shell, plan_activate(shell.cli, shell.paths).cmds[1])
    /\ pc' = "activated"
    /\ UNCHANGED <<fuzzyVars, configVars, argsVars, boolarg, litVars, cmVars, translation>>

\* eval "$(cm deactivate)"
EvalDeactivate ==
    /\ pc = "activated"
    /\ shell' = eval_deactivate(shell)
    /\ pc' = "deactivated"
    /\ UNCHANGED <<fuzzyVars, configVars, argsVars, boolarg, litVars, cmVars, translation>>

(***************************************************************************)
(* One call of ResultDBTest::test_path                                     *)
(***************************************************************************)
MaxIdLen == 3      \* pieces of a test identifier

\* pieces of the identifiers of a snapshot: suite prefixes and file names
IdPieces == {"LLVM :: ", "Clang :: ", "LLVM-Unit :: ", "a", "b.c"}

TestIds == SeqsUpTo(IdPieces, MaxIdLen) \ {<<>>}

PathIdle ==
    translation = [test_id |-> <<>>, paths |-> [source |-> <<".">>, binary |-> <<"build">>],
                   path |-> <<>>]

InitPath ==
    /\ pc = "start"
    /\ \E id \in TestIds, src \in {<<".">>, <<"llvm">>} :
           translation = [test_id |-> id, paths |-> [source |-> src, binary |-> <<"build">>],
                          path |-> <<>>]

\* t.test_path(paths), as in the map of plan_lit
TestPath ==
    /\ pc = "start"
    /\ translation' = [translation EXCEPT
                           !.path = test_path(translation.test_id, translation.paths)]
    /\ pc' = "translated"
    /\ UNCHANGED <<fuzzyVars, configVars, argsVars, boolarg, litVars, cmVars, shell>>

(***************************************************************************)
(* Specifications                                                          *)
(***************************************************************************)
\* one parse of a token by a FuzzyParser
InitSpecFuzzy == InitFuzzy /\ ConfigIdle /\ ArgsIdle /\ BoolIdle /\ LitIdle /\ CmIdle /\ ShellIdle /\ PathIdle
NextFuzzy == ParseRef
SpecFuzzy == InitSpecFuzzy /\ [][NextFuzzy]_vars

\* Config::from_env()?.slurp_into(sub, &mut args), line by line
InitSpecConfig == InitConfig /\ FuzzyIdle /\ ArgsIdle /\ BoolIdle /\ LitIdle /\ CmIdle /\ ShellIdle /\ PathIdle
NextConfig ==
    \/ ConfigFromEnv
    \/ SlurpNoConfig
    \/ SlurpNext
    \/ SlurpEnd
SpecConfig == InitSpecConfig /\ [][NextConfig]_vars

\* args::build()
InitSpecArgs == InitArgs /\ FuzzyIdle /\ BoolIdle /\ LitIdle /\ CmIdle /\ ShellIdle /\ PathIdle
NextArgs == Build
SpecArgs == InitSpecArgs /\ [][NextArgs]_vars

\* the grammar's reading of one boolean option
InitSpecBool == InitBool /\ FuzzyIdle /\ ConfigIdle /\ ArgsIdle /\ LitIdle /\ CmIdle /\ ShellIdle /\ PathIdle
NextBool == ParseBoolArg
SpecBool == InitSpecBool /\ [][NextBool]_vars

\* plan_lit
InitSpecLit == InitLit /\ FuzzyIdle /\ ConfigIdle /\ ArgsIdle /\ BoolIdle /\ CmIdle /\ ShellIdle /\ PathIdle
NextLit == PlanLit
SpecLit == InitSpecLit /\ [][NextLit]_vars

\* cm(): resolution and planning, then the commands one by one
InitSpecCm == InitCm /\ FuzzyIdle /\ ConfigIdle /\ ArgsIdle /\ BoolIdle /\ LitIdle /\ ShellIdle /\ PathIdle
NextCm ==
    \/ CmPlan
    \/ CmPrint
    \/ CmSpawn
    \/ CmWait
    \/ CmReturn
SpecCm == InitSpecCm /\ [][NextCm]_vars

\* the translation of one test identifier
InitSpecPath == InitPath /\ FuzzyIdle /\ ConfigIdle /\ ArgsIdle /\ BoolIdle /\ LitIdle /\ CmIdle /\ ShellIdle
NextPath == TestPath
SpecPath == InitSpecPath /\ [][NextPath]_vars

\* a shell that evaluates the output of activate, then that of deactivate
InitSpecShell == InitShell /\ FuzzyIdle /\ ConfigIdle /\ ArgsIdle /\ BoolIdle /\ LitIdle /\ CmIdle /\ PathIdle
NextShell ==
    \/ EvalActivate
    \/ EvalDeactivate
SpecShell == InitSpecShell /\ [][NextShell]_vars


(***************************************************************************)
(* Properties                                                              *)
(***************************************************************************)
\* the k-th smallest element of a finite set of numbers
RECURSIVE Nth(_, _)
Nth(I, k) ==
    LET m == CHOOSE x \in I : \A y \in I : x <= y
    IN  IF k = 1 THEN m ELSE Nth(I \ {m}, k - 1)

\* the elements of seq at the indices I, in order
AtIndices(seq, I) == [k \in 1..Cardinality(I) |-> seq[Nth(I, k)]]

\* the three kinds of config line
IsArgumentLine(line) == line # <<>> /\ line[1] = "-"
IsSkippedLine(line) ==
    \/ \A i \in 1..Len(line) : IsSpace(line[i])
    \/ \E k \in 1..Len(line) : line[k] = "#" /\ \A j \in 1..(k - 1) : IsSpace(line[j])
IsSectionLine(line) == ~IsArgumentLine(line) /\ ~IsSkippedLine(line)

\* the section that owns line i: the latest section label before it, else the
\* global section
OwningSection(lines, i) ==
    LET labels == {j \in 1..(i - 1) : IsSectionLine(lines[j])}
    IN  IF labels = {} THEN <<>>
        ELSE lines[CHOOSE j \in labels : \A h \in labels : h <= j]

\* the Argument lines of the global section and of the sections whose label
\* begins with the subcommand token, in file order
SelectedArgs(lines, subc) ==
    AtIndices(lines,
              {i \in 1..Len(lines) :
                   /\ IsArgumentLine(lines[i])
                   /\ \/ OwningSection(lines, i) = <<>>
                      \/ StartsWith(OwningSection(lines, i), subc)})

\* ---- SpecArgs ----
PreParsed == pc = "built" /\ cli.sub_and_args # <<>>
TheSub == Head(cli.sub_and_args)
SubArgs == Tail(cli.sub_and_args)
ConfigArgs ==
    IF env.CM_CONFIG_PATH = "path" /\ file.opens
    THEN SelectedArgs(file.lines, TheSub) ELSE <<>>

\* the value of a layer for a scalar option, and for a list option
Layer(tokens, name) ==
    LET vs == OptValues(tokens, name)
    IN  IF vs = <<>> THEN None ELSE Some(vs[Len(vs)])
CliSource ==
    IF Layer(SubArgs, "source").some THEN Layer(SubArgs, "source") ELSE cli.pre.source

\* C1: with a config-file value X, an environment default Y and a command-line
\* value Z of an option (any subset present), the cooked vector resolves, the last
\* occurrence winning, to Z if present, else Y if present, else X; an overriding
\* list option resolves to the whole list of its strongest layer, never to a
\* concatenation of layers.
C1_Precedence ==
    (PreParsed /\ cooked.ok) =>
        /\ LastWins(cooked.args, "source") =
               (IF CliSource.some THEN CliSource
                ELSE IF cli.defaults.source.some THEN cli.defaults.source
                ELSE Layer(ConfigArgs, "source"))
        /\ overriding_vec(OptValues(cooked.args, "flag")) =
               (IF Layer(SubArgs, "flag").some
                THEN SplitComma(Layer(SubArgs, "flag").val)
                ELSE IF Layer(ConfigArgs, "flag").some
                THEN SplitComma(Layer(ConfigArgs, "flag").val)
                ELSE <<>>)

C1_Witness ==
    /\ PreParsed /\ cooked.ok
    /\ Layer(ConfigArgs, "source") = Some(<<"X">>)
    /\ cli.defaults.source = Some(<<"Y">>)
    /\ Layer(SubArgs, "source") = Some(<<"Z">>)
    /\ LastWins(cooked.args, "source") = Some(<<"Z">>)
    /\ Layer(ConfigArgs, "flag") = Some(<<"a", ",", "b">>)
    /\ Layer(SubArgs, "flag") = Some(<<"c">>)
    /\ overriding_vec(OptValues(cooked.args, "flag")) = << <<"c">> >>

\* C2: when the pre-parse succeeds, the cooked vector is the program name, the
\* subcommand token, the config-file arguments selected for the subcommand in file
\* order, one "--name=value" token per set global option, "-h" if given, "--help"
\* if given, and the tokens that followed the subcommand, in their order.
C2_CookedVector ==
    (PreParsed /\ cooked.ok) =>
        cooked.args =
            <<cli.bin, TheSub>>
            \o ConfigArgs
            \o (IF cli.pre.source.some THEN <<OptToken("source", cli.pre.source.val)>>
                ELSE IF cli.defaults.source.some
                THEN <<OptToken("source", cli.defaults.source.val)>>
                ELSE <<>>)
            \o (IF cli.defaults.binary.some
                THEN <<OptToken("binary", cli.defaults.binary.val)>> ELSE <<>>)
            \o (IF cli.help_short THEN <<t_h>> ELSE <<>>)
            \o (IF cli.help_long THEN <<t_help>> ELSE <<>>)
            \o SubArgs

C2_Witness ==
    /\ PreParsed /\ cooked.ok
    /\ cooked.args = << s_cm, s_build, OptToken("source", <<"X">>),
                        OptToken("source", <<"Y">>), OptToken("binary", <<"B">>),
                        t_h, t_help, <<"t.c">>, OptToken("source", <<"Z">>) >>

\* ---- SpecConfig ----
ExampleFile == << <<"-", "x">>, s_build, <<"-", "y">> >>

\* C3: slurp_into appends to the accumulator exactly the Argument lines whose
\* owning section is the global section or a label that begins with the subcommand
\* token, in file order, and keeps what the accumulator held; with "-x" global and
\* "-y" under "build", "build" gets -x -y and "lit" gets only -x.
C3_SlurpInto ==
    (pc = "done" /\ inner.some) =>
        /\ out = <<s_cm, sub>> \o SelectedArgs(file.lines, sub)
        /\ (file.lines = ExampleFile /\ sub = s_build) =>
               out = <<s_cm, sub, <<"-", "x">>, <<"-", "y">> >>
        /\ (file.lines = ExampleFile /\ sub = s_lit) =>
               out = <<s_cm, sub, <<"-", "x">> >>

C3_Witness ==
    /\ pc = "done" /\ inner.some
    /\ file.lines = << <<"-", "x">>, <<"b">>, <<"-", "y">> >>
    /\ sub = s_build
    /\ out = <<s_cm, s_build, <<"-", "x">> >>

\* C4 as stated: no config file is available when the override is unset and no
\* default file exists, or the override is empty, or the test-isolation variable
\* is set; then loading succeeds and contributes no argument.
C4_Original ==
    ( \/ env.CM_CONFIG_PATH = "unset" /\ (~env.config_dir \/ ~file.opens)
      \/ env.CM_CONFIG_PATH = "empty"
      \/ env.CM_TESTING ) =>
        /\ ~err /\ pc # "failed"
        /\ out = <<s_cm, sub>>

\* C4, amended: the test-isolation variable counts only while the override is
\* unset.
C4_NoConfig ==
    ( \/ env.CM_CONFIG_PATH = "unset" /\ (~env.config_dir \/ ~file.opens)
      \/ env.CM_CONFIG_PATH = "empty"
      \/ env.CM_CONFIG_PATH = "unset" /\ env.CM_TESTING ) =>
        /\ ~err /\ pc # "failed"
        /\ out = <<s_cm, sub>>
        /\ pc \in {"slurp", "done"} => ~inner.some

C4_Witness ==
    /\ pc = "done"
    /\ env.CM_CONFIG_PATH = "unset" /\ env.CM_TESTING /\ env.config_dir
    /\ file.opens /\ file.lines = ExampleFile
    /\ ~err /\ out = <<s_cm, sub>>


\* ---- SpecFuzzy ----
\* the places of the known values that equal the token, case ignored, and of
\* those that begin with the token
EqualPlaces ==
    {i \in 1..Len(parser.known_values) : EqIgnoreAsciiCase(parser.known_values[i], value)}
PrefixPlaces ==
    {i \in 1..Len(parser.known_values) : StartsWith(parser.known_values[i], value)}
TheOnly(I) == parser.known_values[CHOOSE i \in I : TRUE]

\* C5: without an inferable prefix the parser returns the canonical spelling of
\* the known value that equals the token case-insensitively when exactly one does,
\* returns the token unchanged otherwise, and never fails.
C5_ModeA ==
    (pc = "parsed" /\ ~parser.inferable_prefix.some) =>
        /\ parsed.ok
        /\ parsed.val = (IF Cardinality(EqualPlaces) = 1 THEN TheOnly(EqualPlaces)
                         ELSE value)

\* C6: with an inferable prefix p the parser returns a token that starts with p
\* unchanged; otherwise p followed by the known value that starts with the token
\* when exactly one does, and otherwise an error that carries the token and lists
\* "p*" and the known values; with all, llvm, clang, lld the token "a" gives
\* "check-all".
C6_ModeB ==
    (pc = "parsed" /\ parser.inferable_prefix.some) =>
        LET p == parser.inferable_prefix.str
        IN  /\ StartsWith(value, p) => parsed = Ok(value)
            /\ (~StartsWith(value, p) /\ Cardinality(PrefixPlaces) = 1) =>
                   parsed = Ok(p \o TheOnly(PrefixPlaces))
            /\ (~StartsWith(value, p) /\ Cardinality(PrefixPlaces) # 1) =>
                   /\ ~parsed.ok
                   /\ parsed.invalid = value
                   /\ parsed.valid = << p \o <<"*">> >> \o parser.known_values
            /\ (parser.known_values = <<s_all, s_llvm, s_clang, s_lld>>
                /\ value = <<"a">>) => parsed = Ok(s_check \o s_all)

C6_Witness ==
    /\ pc = "parsed"
    /\ parser.inferable_prefix = SomePrefix(s_check)
    /\ parser.known_values = <<s_all, s_llvm, s_clang, s_lld>>
    /\ value = <<"a">>
    /\ parsed = Ok(s_check \o s_all)

\* ---- SpecBool ----
\* C7: every boolean option accepts the bare flag, "--flag=true" and
\* "--flag=false"; the bare flag means true and the last occurrence in the
\* argument vector decides, so a later "--flag=false" gives false.
C7_SettableBool ==
    (pc = "parsed" /\ boolarg.tokens # <<>>) =>
        /\ boolarg.result.ok
        /\ boolarg.result.val =
               (boolarg.tokens[Len(boolarg.tokens)]
                    # OptToken(boolarg.arg.name, <<"false">>))

\* ---- SpecLit ----
Selecting == pc = "planned" /\ ~lit.xfail_export /\ ~lit.group.some
SnapshotReadable == world.binary_exists /\ world.snapshot.state = "ok"
FailingPlaces ==
    {i \in 1..Len(world.snapshot.tests) : ~world.snapshot.tests[i].expected}
UnderSource(rel) == world.paths.source \o <<"/">> \o rel
Snapshot3 ==
    << [expected |-> FALSE, test_id |-> id_a], [expected |-> TRUE, test_id |-> id_b],
       [expected |-> FALSE, test_id |-> id_c] >>

\* C8: without explicit tests the test list is the translated paths of exactly
\* the snapshot records with expected = false, in snapshot order, cut to the first
\* of them with --first; for a.c failing, b.c passing, c.c failing of LLVM it is
\* test/a.c then test/c.c under the source directory, and only test/a.c with
\* --first.
C8_FailingTests ==
    (Selecting /\ lit.tests = <<>> /\ SnapshotReadable) =>
        LET failing == AtIndices(world.snapshot.tests, FailingPlaces)
            n == IF lit.first /\ Len(failing) > 1 THEN 1 ELSE Len(failing)
        IN  /\ planned.ok
            /\ planned.selected =
                   [k \in 1..n |-> test_path(failing[k].test_id, world.paths)]
            /\ planned.args = planned.selected \o lit.args
            /\ (world.snapshot.tests = Snapshot3 /\ ~lit.first) =>
                   planned.selected = << UnderSource(<<"test/", "a.c">>),
                                         UnderSource(<<"test/", "c.c">>) >>
            /\ (world.snapshot.tests = Snapshot3 /\ lit.first) =>
                   planned.selected = << UnderSource(<<"test/", "a.c">>) >>

C8_Witness ==
    /\ Selecting /\ lit.tests = <<>> /\ SnapshotReadable
    /\ lit.first
    /\ world.snapshot.tests =
           << [expected |-> TRUE, test_id |-> id_b], [expected |-> FALSE, test_id |-> id_c],
              [expected |-> FALSE, test_id |-> id_u] >>
    /\ planned.selected = << UnderSource(<<"test/", "c.c">>) >>

\* C9: whenever explicit tests are given they are used unchanged, in their order,
\* and the snapshot is not read during planning, whatever other flags are set.
C9_ExplicitTests ==
    (pc = "planned" /\ lit.tests # <<>>) =>
        /\ ~planned.read
        /\ planned.ok => planned.args = lit.tests \o lit.args

\* C10: a snapshot that is absent or malformed never makes planning fail: it is
\* read as no failing tests, with a diagnostic.  (Stated for an existing binary
\* directory, so that nothing else can fail.)
C10_SnapshotNonFatal ==
    (pc = "planned" /\ world.binary_exists /\ world.snapshot.state # "ok") =>
        /\ planned.ok
        /\ planned.read => (planned.warned /\ planned.selected = <<>>)


llvm_lit == Push(world.paths.binary, <<"bin/llvm-lit">>)
HasEnv(cmd, k) == \E e \in cmd.envs : e.key = k
\* the computed list of test targets: the explicit tests, or the failing tests
TestTargets == select_tests(lit, world.paths, world).paths

\* C11: for a lit invocation without a named group (and without the xfail
\* export), an empty list of test targets gives a successful plan without
\* commands, whatever trailing arguments are forwarded; a non-empty list gives
\* exactly one command, a print-only command when print-only is requested and a
\* runner invocation otherwise.
C11_EmptyPlan ==
    Selecting =>
        /\ TestTargets = <<>> => (planned.ok /\ planned.cmds = <<>>)
        /\ (TestTargets # <<>> /\ planned.ok) =>
               /\ Len(planned.cmds) = 1
               /\ planned.cmds[1].program =
                      (IF lit.print_only THEN <<"printf">> ELSE llvm_lit)

\* C12: the update-result-database boolean is the supplied value when one is
\* given, else false when explicit tests or --first are present and true
\* otherwise; the planned runner or group command carries LIT_OPTS exactly when
\* the boolean is true.
C12_UpdateResultDB ==
    pc = "planned" =>
        /\ lit.update_given = "true" => lit.update_resultdb
        /\ lit.update_given = "false" => ~lit.update_resultdb
        /\ lit.update_given = "none" =>
               (lit.update_resultdb <=> ~(lit.tests # <<>> \/ lit.first))
        /\ \A k \in 1..Len(planned.cmds) :
               (planned.ok /\ ~lit.xfail_export /\ (lit.group.some \/ ~lit.print_only)) =>
                   (HasEnv(planned.cmds[k], "LIT_OPTS") <=> lit.update_resultdb)

C12_Witness ==
    /\ pc = "planned" /\ planned.ok
    /\ lit.group.some /\ lit.update_given = "false" /\ ~lit.xfail_export
    /\ Len(planned.cmds) = 1
    /\ ~HasEnv(planned.cmds[1], "LIT_OPTS")


\* ---- SpecCm ----
Last(seq) == seq[Len(seq)]

\* C13: without --dry-run the commands are started one at a time in plan order,
\* command k+1 only after commands 1..k have exited with code 0; the first command
\* that does not exit with 0 ends the invocation, no later command is started, and
\* the exit code of the process is that command's exit code, or -1 when it has none.
C13_RunInOrder ==
    (~invocation.cli.dry_run /\ pc # "start") =>
        LET n == Len(proc.started)
            m == Len(proc.statuses)
        IN  /\ n <= Len(plan_cmds.cmds)
            /\ proc.started = SubSeq(plan_cmds.cmds, 1, n)
            /\ m = (IF pc = "wait" THEN n - 1 ELSE n)
            /\ \A i \in 1..(n - 1) : proc.statuses[i] = ExitCode(0)
            /\ (m > 0 /\ Last(proc.statuses) # ExitCode(0)) =>
                   /\ pc = "exited"
                   /\ proc.exit.exited
                   /\ proc.exit.code = (IF Last(proc.statuses).some
                                        THEN Last(proc.statuses).code ELSE -1)
            /\ proc.printed = <<>>

C13_Witness ==
    /\ ~invocation.cli.dry_run /\ pc = "exited"
    /\ Len(plan_cmds.cmds) = 2
    /\ proc.statuses = <<ExitCode(0), NoExitCode>>
    /\ proc.exit = Exited(-1)

\* C14: with --dry-run no planned command is executed; every command of the plan
\* is printed once, in plan order, as its environment overrides followed by the
\* program and its arguments, and the invocation succeeds when planning succeeded.
C14_DryRun ==
    (invocation.cli.dry_run /\ pc # "start" /\ plan_cmds.ok) =>
        /\ proc.started = <<>> /\ proc.statuses = <<>>
        /\ pc \in {"loop", "exited"}
        /\ Len(proc.printed) = proc.k - 1
        /\ \A i \in 1..Len(proc.printed) :
               LET cmd == plan_cmds.cmds[i]
                   envs == get_envs(cmd)
               IN  proc.printed[i] =
                       Join([e \in 1..Len(envs) |->
                                 Quote(<<envs[e].key>>) \o <<"=">> \o Quote(envs[e].val)]
                            \o <<Quote(cmd.program)>>
                            \o [a \in 1..Len(cmd.args) |-> Quote(cmd.args[a])], " ")
        /\ pc = "exited" =>
               (proc.exit = Exited(0) /\ Len(proc.printed) = Len(plan_cmds.cmds))

C14_Witness ==
    /\ invocation.cli.dry_run /\ pc = "exited" /\ plan_cmds.ok
    /\ Len(proc.printed) = 1
    /\ HasEnv(plan_cmds.cmds[1], "LIT_OPTS") /\ HasEnv(plan_cmds.cmds[1], "FILECHECK_OPTS")
    /\ SubSeq(proc.printed[1], 1, 2) = <<"FILECHECK_OPTS", "=">>
    /\ proc.exit = Exited(0)


Configuring ==
    pc # "start" /\ invocation.cli.command.kind = "configure" /\ plan_cmds.ok
\* the argument of the cmake command that begins with the given text
CMakeArg(prefix) ==
    LET args == plan_cmds.cmds[2].args
    IN  args[CHOOSE i \in 1..Len(args) : Head(args[i]) = prefix]
\* the members of a ';'-separated list that follows the first text of an argument
Items(arg) == {arg[i] : i \in 2..Len(arg)} \ {";"}
Names(v) == {v[i][1] : i \in 1..Len(v)}

\* C15: configure emits the project list "llvm;clang;lld" and the target list
\* "all" when neither projects nor targets are given; with -t the emitted target
\* list holds the given targets and the host-native target; with -T it holds
\* exactly the given targets.
C15_ConfigureLists ==
    Configuring =>
        LET cf == invocation.cli.command.configure
            projects == CMakeArg("-DLLVM_ENABLE_PROJECTS=")
            targets == CMakeArg("-DLLVM_TARGETS_TO_BUILD=")
        IN  /\ (~cf.enable_projects.some /\ ~cf.targets_to_build.some
                /\ ~cf.targets_to_build_alt.some) =>
                   /\ projects = <<"-DLLVM_ENABLE_PROJECTS=", "llvm;clang;lld">>
                   /\ targets = <<"-DLLVM_TARGETS_TO_BUILD=", "all">>
            /\ cf.targets_to_build.some =>
                   Items(targets) = Names(cf.targets_to_build.val) \cup {"Native"}
            /\ cf.targets_to_build_alt.some =>
                   Items(targets) = Names(cf.targets_to_build_alt.val)

\* C16: with an explicit quirks value the resolved quirks are that value, whatever
\* the filesystem holds, and the detector makes no query of the filesystem; it is
\* consulted only without an explicit value.
C16_ExplicitQuirks ==
    pc # "start" =>
        /\ invocation.cli.quirks.some =>
               /\ resolved.quirks = invocation.cli.quirks.val
               /\ resolved.stats = <<>>
        /\ ~invocation.cli.quirks.some => resolved.stats # <<>>

\* C18: when the source is the root of an llvm-project checkout (no CMakeLists.txt,
\* an llvm subdirectory) and the LLVM quirks are detected, the source directory
\* given to cmake is the llvm subdirectory of that root, for the default root (the
\* current directory) and for a root given with --source.
C18_TrueSource ==
    (Configuring /\ ~invocation.cli.quirks.some
     /\ ~invocation.fs.cml_is_file /\ invocation.fs.llvm_is_dir) =>
        /\ resolved.quirks = "Llvm"
        /\ plan_cmds.cmds[2].args[1] = <<"-S">>
        /\ plan_cmds.cmds[2].args[2] =
               (IF invocation.cli.source.some
                THEN Push(invocation.cli.source.val, <<"llvm">>)
                ELSE <<"llvm">>)


\* ---- SpecShell ----
\* C17: in a shell with a non-empty PATH and no activation, after evaluating the
\* output of activate CM_SRC, CM_BIN and CM_CFG hold the source path, the binary
\* path and the build type and PATH is "<binary>/bin:" followed by the original
\* PATH; after evaluating the output of deactivate next, the three variables are
\* unset and PATH is the original PATH.
C17_ActivateDeactivate ==
    /\ pc = "activated" =>
           /\ shell.CM_SRC = Some(shell.paths.source)
           /\ shell.CM_BIN = Some(shell.paths.binary)
           /\ shell.CM_CFG = Some(IF shell.cli.debug THEN <<"Debug">> ELSE shell.cli.config)
           /\ shell.PATH = shell.paths.binary \o <<"/", "bin", ":">> \o shell.orig_PATH
    /\ pc = "deactivated" =>
           /\ shell.CM_SRC = None /\ shell.CM_BIN = None /\ shell.CM_CFG = None
           /\ shell.PATH = shell.orig_PATH


\* ---- SpecConfig ----
\* a turn of the loop of slurp_into that reads a line
ScansLine == pc = "slurp" /\ inner.some /\ inner.lines # <<>> /\ inner.bad # 1

\* C19: the scan starts in the global section; every line is one of blank or
\* comment (first character after whitespace '#'), which changes neither the
\* section nor the output, Argument (first character '-'), which leaves the
\* section as it is, or section marker (anything else), which makes the whole line
\* the current section and adds nothing to the output.
C19_ScanLines ==
    /\ [](pc = "slurp" /\ inner.some /\ Len(inner.lines) = Len(file.lines)
              => inner.section = <<>>)
    /\ [][ScansLine =>
              LET line == Head(inner.lines)
              IN  /\ ~(IsArgumentLine(line) /\ IsSkippedLine(line))
                  /\ IsSkippedLine(line) =>
                         (inner'.section = inner.section /\ out' = out)
                  /\ IsArgumentLine(line) =>
                         /\ inner'.section = inner.section
                         /\ out' \in {out, Append(out, line)}
                  /\ (~IsArgumentLine(line) /\ ~IsSkippedLine(line)) =>
                         (inner'.section = line /\ out' = out)]_vars

C19_Witness ==
    /\ pc = "done" /\ inner.some
    /\ file.lines = << <<" ", "#">>, <<" ", "-", "x">>, <<"-", "y">> >>
    /\ inner.section = <<" ", "-", "x">>
    /\ out = <<s_cm, sub>>

\* C20: a failure to open or to read the config file is fatal exactly when the
\* file was named by the override path; for the default file every such failure,
\* on open or on reading a line, gives no config: resolution succeeds and the
\* file contributes no argument.
C20_FatalOnlyIfExplicit ==
    pc \in {"done", "failed"} =>
        /\ err <=> (env.CM_CONFIG_PATH = "path" /\ (~file.opens \/ file.bad # 0))
        /\ (env.CM_CONFIG_PATH = "unset" /\ ~env.CM_TESTING /\ env.config_dir
            /\ (~file.opens \/ file.bad # 0)) =>
               (pc = "done" /\ out = <<s_cm, sub>>)


\* ---- SpecPath ----
Translated == pc = "translated"
\* the rules of the table that match the identifier, by place
MatchingRules(table) == {k \in 1..Len(table) : is_match(table[k], translation.test_id)}
\* the translation by the first rule of a table that matches
ByFirstRule(table) ==
    LET k == CHOOSE h \in MatchingRules(table) : \A g \in MatchingRules(table) : h <= g
    IN  replace(table[k], translation.test_id)
\* the table without its third and fourth rules, which repeat the first two
WithoutDuplicates == SubSeq(REGEXES, 1, 2) \o SubSeq(REGEXES, 5, Len(REGEXES))
UnderRoot(rel) == translation.paths.source \o <<"/">> \o rel

\* C21 as stated: an identifier is translated by the first rule that matches it,
\* to a path under the source root; an identifier that no rule matches becomes
\* the identifier appended to the source root; the duplicate rules change nothing.
C21_Original ==
    Translated =>
        /\ MatchingRules(REGEXES) # {} =>
               /\ translation.path = UnderRoot(ByFirstRule(REGEXES))
               /\ translation.path = UnderRoot(ByFirstRule(WithoutDuplicates))
        /\ MatchingRules(REGEXES) = {} =>
               translation.path = UnderRoot(translation.test_id)

\* C21: an identifier is translated by the first rule that matches it, to a path
\* under the source root; an identifier that no rule matches is returned as it
\* is, a literal path that is not joined to the source root; the duplicate rules
\* change nothing.
C21_TestPath ==
    Translated =>
        /\ MatchingRules(REGEXES) # {} =>
               /\ translation.path = UnderRoot(ByFirstRule(REGEXES))
               /\ translation.path = UnderRoot(ByFirstRule(WithoutDuplicates))
        /\ MatchingRules(REGEXES) = {} <=> MatchingRules(WithoutDuplicates) = {}
        /\ MatchingRules(REGEXES) = {} =>
               translation.path = translation.test_id

C21_Witness ==
    /\ Translated
    /\ translation.test_id = <<"Clang :: ", "LLVM :: ", "b.c">>
    /\ translation.paths.source = <<"llvm">>
    /\ translation.path = <<"llvm", "/", "Clang :: ", "test/", "b.c">>


\* ---- SpecCm ----
\* C22: without an explicit quirks value the resolved Quirks is Llvm exactly when
\* CMakeLists.txt is not a file at the candidate source path and llvm is a
\* directory there, and None (generic) in the three other cases; the value is one
\* of the two modes, it is the one planning was done with, and it does not change
\* after planning, through the execution of the commands.
C22_DetectedQuirks ==
    /\ [](pc # "start" =>
              /\ resolved.quirks \in {"None", "Llvm"}
              /\ ~invocation.cli.quirks.some =>
                     (resolved.quirks = "Llvm" <=>
                          (~invocation.fs.cml_is_file /\ invocation.fs.llvm_is_dir))
              /\ plan_cmds = plan(invocation.cli.command, invocation.cli, resolved.quirks,
                                  resolved.paths, invocation.host, invocation.lit_world))
    /\ [][pc # "start" => (resolved' = resolved /\ invocation' = invocation)]_vars

C22_Witness ==
    /\ pc = "exited"
    /\ ~invocation.cli.quirks.some /\ ~invocation.cli.dry_run
    /\ ~invocation.fs.cml_is_file /\ invocation.fs.llvm_is_dir
    /\ invocation.cli.command.kind = "configure"
    /\ resolved.quirks = "Llvm"
    /\ Len(proc.statuses) = 2


\* the parts of the flag value that plan_configure finds before the user's flags
ColorPart ==
    IF has_cc_flag("-fcolor-diagnostics", invocation.host) = "true"
    THEN << <<"-fcolor-diagnostics">> >> ELSE <<>>
SanitizerPart ==
    IF invocation.cli.command.configure.san /\ resolved.quirks = "None"
    THEN << <<"-fsanitize=address,undefined">> >> ELSE <<>>
Inherited(var) == IF var.some THEN <<var.val>> ELSE <<>>

ProbedPrograms ==
    LET h == invocation.host
        lld_usable == "lld" \in h.commands /\ "cc" \in h.commands
                          /\ "-fuse-ld=lld" \in h.cc_flags
    IN  {"cc"}
        \cup (IF h.CM_TESTING THEN {} ELSE {"ccache"})
        \cup (IF ~h.CM_TESTING /\ resolved.quirks = "Llvm"
              THEN {"sphinx-build", "lld"} \cup (IF lld_usable THEN {} ELSE {"gold"})
              ELSE {})
CMakeArgs == {plan_cmds.cmds[2].args[i] : i \in 1..Len(plan_cmds.cmds[2].args)}
Launchers ==
    { <<"-DCMAKE_C_COMPILER_LAUNCHER=ccache">>, <<"-DCMAKE_CXX_COMPILER_LAUNCHER=ccache">>,
      <<"-DLLVM_CCACHE_BUILD=On">> }

\* C24: in the planning of configure a probe whose program is not found counts
\* as a negative answer and planning goes on; a probe that cannot be started for
\* another reason makes planning fail: there is no plan, no command is started or
\* printed, and the exit code is -1.
C24_ProbeFailures ==
    (pc # "start" /\ invocation.cli.command.kind = "configure") =>
        LET h == invocation.host
            absent == {"cc", "ccache", "gold", "lld", "sphinx-build"} \ (h.commands \cup h.denied)
        IN  /\ plan_cmds.ok <=> ProbedPrograms \cap h.denied = {}
            /\ ~plan_cmds.ok =>
                   /\ plan_cmds.cmds = <<>>
                   /\ pc = "exited" /\ proc.exit = Exited(-1)
                   /\ proc.started = <<>> /\ proc.printed = <<>>
            /\ plan_cmds.ok =>
                   /\ Len(plan_cmds.cmds) = 2
                   /\ ("ccache" \in absent /\ ~h.CM_TESTING) => CMakeArgs \cap Launchers = {}
                   /\ ("sphinx-build" \in absent /\ ~h.CM_TESTING) =>
                          <<"-DLLVM_ENABLE_SPHINX=On">> \notin CMakeArgs
                   /\ ({"lld", "gold"} \subseteq absent /\ ~h.CM_TESTING) =>
                          /\ <<"-DLLVM_USE_LINKER=lld">> \notin CMakeArgs
                          /\ <<"-DLLVM_USE_LINKER=gold">> \notin CMakeArgs
                   /\ "cc" \in absent =>
                          /\ "-fcolor-diagnostics" \notin Items(CMakeArg("-DCMAKE_C_FLAGS="))
                          /\ <<"-DLLVM_USE_LINKER=lld">> \notin CMakeArgs
                          /\ <<"-DLLVM_USE_LINKER=gold">> \notin CMakeArgs

\* a probe of gold that cannot be started, after lld was not found
C24_Witness ==
    /\ pc = "exited" /\ invocation.cli.command.kind = "configure"
    /\ resolved.quirks = "Llvm"
    /\ invocation.host.denied = {"gold"} /\ "lld" \notin invocation.host.commands
    /\ ~plan_cmds.ok /\ plan_cmds.cmds = <<>> /\ proc.exit = Exited(-1)


\* ---- SpecConfig ----
\* the lines of the file that the scan has read so far
LinesRead == SubSeq(file.lines, 1, Len(file.lines) - Len(inner.lines))
\* the places of the section markers of a file
MarkerPlaces(lines) == {i \in 1..Len(lines) : IsSectionLine(lines[i])}
\* the Argument lines that precede the first section marker
ArgsBeforeMarkers(lines) ==
    AtIndices(lines, {i \in 1..Len(lines) :
                          IsArgumentLine(lines[i])
                          /\ \A j \in MarkerPlaces(lines) : i < j})

\* C25: the current section is the global (empty) one exactly until a section
\* marker has been read and never again after it, a label being non-empty; so an
\* Argument line after a section marker is taken only when the label of its
\* section begins with the subcommand, and a subcommand that no label matches
\* receives exactly the Argument lines before the first section marker.
C25_NoReturnToGlobal ==
    /\ []((pc \in {"slurp", "done"} /\ inner.some) =>
              /\ inner.section = <<>> <=> MarkerPlaces(LinesRead) = {}
              /\ \A i \in MarkerPlaces(file.lines) : file.lines[i] # <<>>)
    /\ [][(pc = "slurp" /\ inner.some /\ inner.section # <<>>)
              => inner'.section # <<>>]_vars
    /\ []((pc = "done" /\ inner.some
             /\ \A i \in MarkerPlaces(file.lines) : ~StartsWith(file.lines[i], sub)) =>
              out = <<s_cm, sub>> \o ArgsBeforeMarkers(file.lines))

C25_Witness ==
    /\ pc = "done" /\ inner.some
    /\ file.lines = << <<"-", "x">>, <<"b">>, <<" ">> >>
    /\ sub = s_lit
    /\ inner.section = <<"b">>
    /\ out = <<s_cm, s_lit, <<"-", "x">> >>

=============================================================================
